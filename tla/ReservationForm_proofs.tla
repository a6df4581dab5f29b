------------------------ MODULE ReservationForm_proofs ------------------------
(***************************************************************************)
(* Theorems about ReservationForm, for any resources, contracts, blocks    *)
(* and times, and whatever the lists say when they arrive: the conflicts   *)
(* shown are those of the form, a new reservation keeps only what the user *)
(* may reserve, the approval covers what applies, and what a user sends is *)
(* within the rules of the resources that the list shows.                  *)
(***************************************************************************)
EXTENDS ReservationForm, FiniteSetTheorems, WellFoundedInduction, TLAPS

(* A series is in the form only while the resources allow it. *)
RecursWhereAllowed == recurring => CanRecur(values.ids, access)

FormInv ==
  /\ TypeOK
  /\ ConflictsAreCurrent
  /\ OnlyReservableIds
  /\ ApprovedWhatApplies
  /\ RecursWhereAllowed

-----------------------------------------------------------------------------
(* The largest and the smallest of some natural numbers *)

LEMMA FiniteHasMax ==
  ASSUME NEW S \in SUBSET Nat, IsFiniteSet(S), S # {}
  PROVE  \E m \in S : \A x \in S : m >= x
<1> DEFINE Unbounded(U) == U # {} /\ ~ \E m \in U : \A x \in U : m >= x
           sizes == {n \in Nat : \E U \in SUBSET S : Unbounded(U) /\ Cardinality(U) = n}
<1> SUFFICES ASSUME Unbounded(S)
             PROVE  FALSE
  OBVIOUS
<1>1. Cardinality(S) \in sizes
  BY FS_CardinalityType
<1>2. PICK n \in sizes : \A k \in sizes : ~ (<<k, n>> \in OpToRel(<, Nat))
  <2> HIDE DEF sizes
  <2>1. sizes \subseteq Nat
    BY DEF sizes
  <2>2. \E n \in sizes : \A k \in sizes : ~ (<<k, n>> \in OpToRel(<, Nat))
    BY <1>1, <2>1, NatLessThanWellFounded, WFMin
  <2> QED
    BY <2>2
<1>3. PICK U \in SUBSET S : Unbounded(U) /\ Cardinality(U) = n
  BY <1>2
<1>4. PICK u \in U : TRUE
  BY <1>3
<1>5. IsFiniteSet(U)
  BY <1>3, FS_Subset
<1> DEFINE W == U \ {u}
<1>6. W \in SUBSET S /\ IsFiniteSet(W) /\ Cardinality(W) = n - 1
  BY <1>3, <1>4, <1>5, FS_RemoveElement
<1>7. CASE Unbounded(W)
  <2>1. Cardinality(W) \in sizes
    BY <1>6, <1>7, FS_CardinalityType
  <2> HIDE DEF W
  <2>4. Cardinality(W) \in Nat /\ n \in Nat
    BY <1>2, <1>6, FS_CardinalityType
  <2> HIDE DEF sizes
  <2>2. n \in Nat /\ n - 1 \in Nat /\ n - 1 < n
    BY <1>6, <2>4
  <2>3. <<n - 1, n>> \in OpToRel(<, Nat)
    BY <2>2 DEF OpToRel
  <2> QED
    BY <1>2, <1>6, <2>1, <2>3
<1>8. CASE W = {}
  <2>1. U = {u} /\ u \in Nat
    BY <1>3, <1>4, <1>8
  <2> QED
    BY <1>3, <2>1
<1>9. CASE \E m \in W : \A x \in W : m >= x
  <2>1. PICK m \in W : \A x \in W : m >= x
    BY <1>9
  <2>2. m \in U /\ m \in Nat /\ u \in Nat /\ U = W \cup {u} /\ W \subseteq Nat
    BY <1>3, <1>4, <2>1
  <2> HIDE DEF W
  <2>3. CASE m >= u
    BY <1>3, <2>1, <2>2, <2>3
  <2>4. CASE u > m
    <3>1. \A x \in U : u >= x
      BY <2>1, <2>2, <2>4
    <3> QED
      BY <1>3, <1>4, <3>1
  <2> QED
    BY <2>2, <2>3, <2>4
<1> QED
  BY <1>7, <1>8, <1>9

LEMMA MaxIsOne ==
  ASSUME NEW S \in SUBSET Nat, IsFiniteSet(S), S # {}
  PROVE  Max(S) \in S
BY FiniteHasMax DEF Max

LEMMA MinIsOne ==
  ASSUME NEW S \in SUBSET Nat, S # {}
  PROVE  Min(S) \in S
<1>1. PICK m \in S : \A x \in S : ~ (<<x, m>> \in OpToRel(<, Nat))
  BY NatLessThanWellFounded, WFMin
<1>2. \A x \in S : x >= m
  <2> SUFFICES ASSUME NEW x \in S, ~ (x >= m)
               PROVE  FALSE
    OBVIOUS
  <2>1. x \in Nat /\ m \in Nat /\ x < m
    OBVIOUS
  <2>2. <<x, m>> \in OpToRel(<, Nat)
    BY <2>1 DEF OpToRel
  <2> QED
    BY <1>1, <2>2
<1>3. \A x \in S : m <= x
  BY <1>2
<1> QED
  BY <1>1, <1>3 DEF Min

LEMMA ImageIsFinite ==
  ASSUME NEW S, IsFiniteSet(S), NEW f
  PROVE  IsFiniteSet({f[x] : x \in S})
<1> DEFINE T == {f[x] : x \in S}
           g == [x \in S |-> f[x]]
<1>1. g \in Surjection(S, T)
  BY DEF Surjection
<1> HIDE DEF g, T
<1>2. IsFiniteSet(T)
  BY <1>1, FS_Surjection
<1> QED
  BY <1>2 DEF T

LEMMA DurationIsNatural ==
  ASSUME NEW ids \in SUBSET Resources
  PROVE  DefaultDuration(ids) \in Nat
<1>1. /\ IsFiniteSet(ids)
      /\ \A r \in ids : Attributes[r].min \in Nat /\ Attributes[r].max \in Nat
                        /\ Attributes[r].default \in Nat
  BY FormAssumption, FS_Subset DEF ResourceAttributes
<1> DEFINE defaults == {Attributes[r].default : r \in ids} \ {0}
           shortest == {Attributes[r].min : r \in ids} \ {0}
           longest == {Attributes[r].max : r \in ids} \ {0}
           enough == Max(defaults \cup shortest)
<1>2. DefaultDuration(ids) = IF defaults = {} THEN 0 ELSE Min({enough} \cup longest)
  BY DEF DefaultDuration
<1>3. defaults \subseteq Nat /\ shortest \subseteq Nat /\ longest \subseteq Nat
  BY <1>1
<1>4. IsFiniteSet(defaults) /\ IsFiniteSet(shortest)
  <2> DEFINE default == [r \in ids |-> Attributes[r].default]
             min == [r \in ids |-> Attributes[r].min]
  <2>1. IsFiniteSet({default[r] : r \in ids}) /\ IsFiniteSet({min[r] : r \in ids})
    <3> HIDE DEF default, min
    <3> QED
      BY <1>1, ImageIsFinite
  <2>2. /\ {default[r] : r \in ids} = {Attributes[r].default : r \in ids}
        /\ {min[r] : r \in ids} = {Attributes[r].min : r \in ids}
    OBVIOUS
  <2> QED
    BY <2>1, <2>2, FS_Difference
<1>5. CASE defaults # {}
  <2>1. IsFiniteSet(defaults \cup shortest) /\ (defaults \cup shortest) \in SUBSET Nat
        /\ defaults \cup shortest # {}
    BY <1>3, <1>4, <1>5, FS_Union
  <2>2. enough \in Nat
    <3> HIDE DEF defaults, shortest
    <3> QED
      BY <2>1, MaxIsOne
  <2> HIDE DEF enough, defaults
  <2>3. ({enough} \cup longest) \in SUBSET Nat /\ {enough} \cup longest # {}
    BY <1>3, <2>2
  <2>4. Min({enough} \cup longest) \in {enough} \cup longest
    <3> HIDE DEF longest
    <3> QED
      BY <2>3, MinIsOne
  <2> QED
    BY <1>2, <1>5, <2>3, <2>4
<1> QED
  BY <1>2, <1>5

-----------------------------------------------------------------------------
(* What the form reads of the resources *)

LEMMA BlocksOnlyMeans ==
  ASSUME NEW ids, NEW acc
  PROVE  BlocksOnly(ids, acc) <=> \E r \in Listed(ids, acc) : Attributes[r].blocks_only
BY DEF BlocksOnly

LEMMA CanRecurMeans ==
  ASSUME NEW ids, NEW acc
  PROVE  CanRecur(ids, acc) <=>
           /\ ~BlocksOnlyMode(ids, acc)
           /\ \/ isAdmin
              \/ ids # {} /\ \A r \in Listed(ids, acc) : Attributes[r].allow_recurring
BY DEF CanRecur

(* What is taken away is never given back by the same change. *)
LEMMA AllowedFewer ==
  ASSUME NEW ids, NEW acc
  PROVE  /\ Allowed(ids, acc) \subseteq ids
         /\ isCreate /\ acc # None => Allowed(ids, acc) \subseteq acc.reservable
BY DEF Allowed

(* With fewer resources fewer contracts apply. *)
LEMMA FewerApply ==
  ASSUME NEW list, NEW ids, NEW kept \in SUBSET ids
  PROVE  Applicable(list, kept) \subseteq Applicable(list, ids)
BY DEF Applicable

ConflictStates == [found : {"unknown", "none", "some"}, current : BOOLEAN]
CheckStates == [live : BOOLEAN, late : BOOLEAN]

LEMMA Typed ==
  ASSUME TypeOK
  PROVE  /\ isAdmin \in BOOLEAN /\ isCreate \in BOOLEAN /\ typedEnd \in BOOLEAN /\ recurring \in BOOLEAN
         /\ values \in Values
         /\ values.ids \in SUBSET Resources
         /\ values.start \in Nat \cup {None} /\ values.end \in Nat \cup {None}
         /\ conflicts \in ConflictStates /\ check \in CheckStates
         /\ access \in ResourceLists \cup {None}
BY DEF TypeOK, Values, ConflictStates, CheckStates

-----------------------------------------------------------------------------
(* Any change of the values, of the list of resources or of the recurrence, *)
(* with the effects that follow it                                          *)
LEMMA BecomeStep ==
  ASSUME TypeOK, ConflictsAreCurrent, NEW v \in Values, NEW acc \in ResourceLists \cup {None},
         NEW again \in BOOLEAN, Become(v, acc, again), UNCHANGED loaded
  PROVE  /\ values' \in Values /\ values'.ids \subseteq v.ids
         /\ access' \in ResourceLists \cup {None} /\ recurring' \in BOOLEAN
         /\ conflicts' \in ConflictStates /\ check' \in CheckStates
         /\ ConflictsAreCurrent'
         /\ OnlyReservableIds'
         /\ RecursWhereAllowed'
<1> DEFINE kept == [v EXCEPT !.ids = Allowed(@, acc)]
           recurs == again /\ CanRecur(kept.ids, acc)
<1>1. values' = kept /\ access' = acc /\ recurring' = recurs /\ Check(kept, recurs, again # recurs)
  BY DEF Become
<1>2. kept \in Values /\ kept.ids = Allowed(v.ids, acc) /\ kept.ids \subseteq v.ids
  <2>1. v = [ids |-> v.ids, start |-> v.start, end |-> v.end] /\ v.ids \in SUBSET Resources
    BY DEF Values
  <2>2. Allowed(v.ids, acc) \in SUBSET Resources
    BY <2>1, AllowedFewer
  <2> QED
    BY <2>1, <2>2, AllowedFewer DEF Values
<1>3. isAdmin' = isAdmin /\ isCreate' = isCreate
  BY DEF loaded
<1>4. recurs \in BOOLEAN /\ conflicts \in ConflictStates /\ check \in CheckStates
  BY Typed DEF CanRecur
<1> HIDE DEF recurs
<1>5. /\ conflicts' \in ConflictStates /\ check' \in CheckStates
      /\ conflicts'.found # "unknown" => conflicts'.current \/ check'.live
  <2> HIDE DEF kept
  <2>1. CASE UNCHANGED <<conflicts, check>>
    BY <1>4, <2>1 DEF ConflictsAreCurrent
  <2>2. CASE /\ check' = [live |-> Asks(kept), late |-> check.live \/ check.late]
             /\ conflicts' = IF (again # recurs) \/ ~Asks(kept) THEN Unknown
                             ELSE [conflicts EXCEPT !.current = FALSE]
    <3>1. Asks(kept) \in BOOLEAN
      BY DEF Asks
    <3>2. check' \in CheckStates /\ check'.live = Asks(kept)
      BY <1>4, <2>2, <3>1 DEF CheckStates
    <3>3. Unknown \in ConflictStates /\ Unknown.found = "unknown"
      BY DEF Unknown, ConflictStates
    <3>4. [conflicts EXCEPT !.current = FALSE] \in ConflictStates
      BY <1>4 DEF ConflictStates
    <3> QED
      BY <2>2, <3>2, <3>3, <3>4
  <2> QED
    BY <1>1, <2>1, <2>2 DEF Check
<1>6. recurring' => CanRecur(values'.ids, access')
  BY <1>1 DEF recurs
<1>7. RecursWhereAllowed'
  BY <1>3, <1>6 DEF RecursWhereAllowed, CanRecur, BlocksOnlyMode, BlocksOnly
<1>8. OnlyReservableIds'
  BY <1>1, <1>2, <1>3, AllowedFewer DEF OnlyReservableIds
<1> QED
  BY <1>1, <1>2, <1>4, <1>5, <1>7, <1>8 DEF ConflictsAreCurrent

(* An approval that stays covers what is left of the resources. *)
LEMMA ApprovalStep ==
  ASSUME ApprovedWhatApplies, values'.ids \subseteq values.ids, UNCHANGED approved
  PROVE  ApprovedWhatApplies'
BY FewerApply DEF ApprovedWhatApplies, Applicable

(* Nothing but an answer that is taken changes what is known of conflicts. *)
LEMMA SameForm ==
  ASSUME FormInv, UNCHANGED <<isAdmin, isCreate, values, access, recurring>>
  PROVE  OnlyReservableIds' /\ RecursWhereAllowed'
BY DEF FormInv, OnlyReservableIds, RecursWhereAllowed, CanRecur, BlocksOnlyMode, BlocksOnly

LEMMA InitFormInv == Init => FormInv
<1> SUFFICES ASSUME Init
             PROVE  FormInv
  OBVIOUS
<1>1. /\ values \in [ids : SUBSET Resources, start : TypedTimes, end : TypedTimes]
      /\ access = None /\ contracts = None /\ reserved = None /\ approved = None
      /\ conflicts = Unknown /\ check = [live |-> Asks(values), late |-> FALSE]
      /\ isAdmin \in BOOLEAN /\ isCreate \in BOOLEAN /\ recurring \in BOOLEAN /\ typedEnd = FALSE
      /\ filled \in {{}, RequiredFields} /\ pc = "editing"
      /\ (isCreate => ~recurring) /\ (~isCreate => values.ids # {})
  BY DEF Init
<1>2. values \in Values
  BY <1>1, FormAssumption DEF Values
<1>3. Asks(values) \in BOOLEAN
  BY DEF Asks
<1>4. check \in [live : BOOLEAN, late : BOOLEAN]
      /\ conflicts \in [found : {"unknown", "none", "some"}, current : BOOLEAN]
  BY <1>1, <1>3 DEF Unknown
<1>5. TypeOK
  <2>1. {isAdmin, isCreate, typedEnd, recurring} \subseteq BOOLEAN
    BY <1>1
  <2>2. /\ access \in ResourceLists \cup {None} /\ contracts \in ContractLists \cup {None}
        /\ reserved \in (SUBSET Blocks) \cup {None} /\ filled \subseteq RequiredFields
        /\ pc \in {"editing", "submitting", "left"}
    BY <1>1
  <2> QED
    BY <1>1, <1>2, <1>4, <2>1, <2>2 DEF TypeOK
<1>6. ConflictsAreCurrent /\ OnlyReservableIds /\ ApprovedWhatApplies
  BY <1>1 DEF ConflictsAreCurrent, OnlyReservableIds, ApprovedWhatApplies, Unknown
<1>7. RecursWhereAllowed
  BY <1>1, BlocksOnlyMeans, CanRecurMeans DEF RecursWhereAllowed, BlocksOnlyMode, Listed
<1> QED
  BY <1>5, <1>6, <1>7 DEF FormInv

(* A user changes values. *)
LEMMA ChangeTyped ==
  ASSUME TypeOK, values' \in Values, access' \in ResourceLists \cup {None}, recurring' \in BOOLEAN,
         conflicts' \in ConflictStates, check' \in CheckStates,
         typedEnd' \in BOOLEAN, approved' \in {approved, None}, UNCHANGED <<loaded, filled, pc>>
  PROVE  TypeOK'
BY DEF TypeOK, loaded, ConflictStates, CheckStates

LEMMA FormInvStep == FormInv /\ [Next]_vars => FormInv'
<1> SUFFICES ASSUME FormInv, [Next]_vars
             PROVE  FormInv'
  OBVIOUS
<1> USE DEF FormInv
<1>0. /\ isAdmin \in BOOLEAN /\ typedEnd \in BOOLEAN /\ recurring \in BOOLEAN
      /\ values \in Values /\ values.ids \in SUBSET Resources
      /\ values.start \in Nat \cup {None} /\ values.end \in Nat \cup {None}
      /\ conflicts \in ConflictStates /\ check \in CheckStates /\ access \in ResourceLists \cup {None}
  BY Typed
<1>s. ASSUME NEW start \in Nat \cup {None}, NEW end \in Nat \cup {None}, NEW ids \in SUBSET Resources
      PROVE  /\ [values EXCEPT !.ids = ids, !.end = end] \in Values
             /\ [values EXCEPT !.start = start, !.end = end] \in Values
             /\ [values EXCEPT !.start = start, !.end = end].ids = values.ids
             /\ [values EXCEPT !.ids = ids] = [values EXCEPT !.ids = ids, !.end = values.end]
             /\ [values EXCEPT !.end = end] = [values EXCEPT !.start = values.start, !.end = end]
  <2>1. values = [ids |-> values.ids, start |-> values.start, end |-> values.end]
    BY <1>0 DEF Values
  <2> QED
    BY <1>0, <2>1 DEF Values
<1>1. CASE \E field \in RequiredFields : Fill(field)
  <2>1. TypeOK'
    BY <1>1 DEF Fill, TypeOK, loaded
  <2> QED
    BY <1>1, <2>1, SameForm DEF Fill, loaded, ConflictsAreCurrent, ApprovedWhatApplies
<1>2. ASSUME NEW r \in Resources, ClickResource(r)
      PROVE  FormInv'
  <2> DEFINE ids == NextIds(r)
             duration == DefaultDuration(Listed(ids, access))
             prefills == isCreate /\ values.start # None /\ duration # 0 /\ ~typedEnd
             end == IF prefills THEN values.start + duration ELSE values.end
             v == [values EXCEPT !.ids = ids, !.end = end]
  <2>1. ids \in SUBSET Resources
    BY <1>0, <1>2 DEF NextIds
  <2>2. duration \in Nat
    <3>1. Listed(ids, access) \in SUBSET Resources
      BY <2>1 DEF Listed
    <3> QED
      BY <3>1, DurationIsNatural
  <2>3. end \in Nat \cup {None}
    <3> HIDE DEF duration
    <3> QED
      BY <1>0, <2>2
  <2>4. /\ Become(v, access, recurring) /\ typedEnd' = (typedEnd \/ prefills) /\ approved' = None
        /\ UNCHANGED <<loaded, filled, pc>>
    <3>1. v = [values EXCEPT !.ids = ids, !.end = IF prefills THEN values.start + duration ELSE @]
      BY <1>0 DEF Values
    <3> HIDE DEF v
    <3> QED
      BY <1>2, <3>1 DEF ClickResource
  <2>5. v \in Values
    <3> HIDE DEF ids, end
    <3> QED
      BY <1>s, <2>1, <2>3
  <2> HIDE DEF v, end
  <2>6. typedEnd' \in BOOLEAN
    BY <1>0, <2>4
  <2> HIDE DEF prefills
  <2>7. /\ values' \in Values /\ access' \in ResourceLists \cup {None} /\ recurring' \in BOOLEAN
        /\ conflicts' \in ConflictStates /\ check' \in CheckStates
        /\ ConflictsAreCurrent' /\ OnlyReservableIds' /\ RecursWhereAllowed'
    BY <1>0, <2>4, <2>5, BecomeStep DEF loaded
  <2>8. TypeOK'
    BY <2>4, <2>6, <2>7, ChangeTyped
  <2>9. ApprovedWhatApplies'
    BY <2>4 DEF ApprovedWhatApplies
  <2> QED
    BY <2>7, <2>8, <2>9
<1>3. ASSUME NEW v \in Values, v.ids = values.ids, NEW acc \in ResourceLists \cup {None}, NEW again \in BOOLEAN,
             Become(v, acc, again), typedEnd' \in BOOLEAN, UNCHANGED <<loaded, filled, approved, pc>>
      PROVE  FormInv'
  <2>1. /\ values' \in Values /\ values'.ids \subseteq values.ids
        /\ access' \in ResourceLists \cup {None} /\ recurring' \in BOOLEAN
        /\ conflicts' \in ConflictStates /\ check' \in CheckStates
        /\ ConflictsAreCurrent' /\ OnlyReservableIds' /\ RecursWhereAllowed'
    BY <1>3, BecomeStep DEF loaded
  <2>2. TypeOK'
    BY <1>3, <2>1, ChangeTyped
  <2>3. ApprovedWhatApplies'
    BY <1>3, <2>1, ApprovalStep
  <2> QED
    BY <2>1, <2>2, <2>3
<1>4. ASSUME NEW b \in Blocks, PickBlock(b)
      PROVE  FormInv'
  <2>1. b.start \in Nat /\ b.end \in Nat
    BY FormAssumption
  <2> DEFINE v == [values EXCEPT !.start = b.start, !.end = b.end]
  <2>2. v \in Values /\ v.ids = values.ids
    BY <1>0, <1>s, <2>1
  <2>3. /\ Become(v, access, recurring) /\ typedEnd' \in BOOLEAN
        /\ UNCHANGED <<loaded, filled, approved, pc>>
    BY <1>4 DEF PickBlock
  <2> HIDE DEF v
  <2> QED
    BY <1>0, <1>3, <2>2, <2>3
<1>5. ASSUME NEW t \in TypedTimes \cup {None}, ChangeStart(t)
      PROVE  FormInv'
  <2> DEFINE moves == /\ None \notin {t, values.start, values.end} /\ values.start < values.end
                      /\ TakesAlong(t)
             end == IF moves THEN t + (values.end - values.start) ELSE values.end
  <2>1. t \in Nat \cup {None}
    BY FormAssumption
  <2>2. end \in Nat \cup {None}
    BY <1>0, <2>1
  <2>3. typedEnd' \in BOOLEAN
    BY <1>0, <1>5 DEF ChangeStart
  <2> DEFINE v == [values EXCEPT !.start = t, !.end = end]
  <2>4. Become(v, access, recurring) /\ UNCHANGED <<loaded, filled, approved, pc>>
    BY <1>5 DEF ChangeStart
  <2> HIDE DEF end
  <2>5. v \in Values /\ v.ids = values.ids
    BY <1>0, <1>s, <2>1, <2>2
  <2> HIDE DEF v
  <2> QED
    BY <1>0, <1>3, <2>3, <2>4, <2>5
<1>6. ASSUME NEW t \in TypedTimes \cup {None}, ChangeEnd(t)
      PROVE  FormInv'
  <2>1. t \in Nat \cup {None}
    BY FormAssumption
  <2>2. [values EXCEPT !.end = t] \in Values /\ [values EXCEPT !.end = t].ids = values.ids
    BY <1>0, <2>1 DEF Values
  <2> QED
    BY <1>0, <1>3, <1>6, <2>2 DEF ChangeEnd
<1>7. CASE ChangeRecurrence
  <2>1. (~recurring) \in BOOLEAN
    OBVIOUS
  <2>2. Become(values, access, ~recurring) /\ UNCHANGED <<loaded, filled, typedEnd, approved, pc>>
    BY <1>7 DEF ChangeRecurrence
  <2> QED
    BY <1>0, <1>3, <2>1, <2>2
<1>8. CASE Approve
  <2>1. contracts # None /\ contracts \in ContractLists
    BY <1>8 DEF Approve, ApplicableNow, TypeOK
  <2>2. ApplicableNow = Applicable(contracts, values.ids) /\ ApplicableNow \in SUBSET Contracts
    BY <2>1, FormAssumption DEF ApplicableNow, Applicable
  <2>3. approved' = None \/ approved' = [listed |-> contracts, shown |-> ApplicableNow]
    BY <1>8 DEF Approve
  <2>4. UNCHANGED <<loaded, access, values, typedEnd, filled, recurring, conflicts, check, pc>>
    BY <1>8 DEF Approve
  <2>5. TypeOK'
    BY <2>1, <2>2, <2>3, <2>4 DEF TypeOK, loaded
  <2>6. ApprovedWhatApplies'
    BY <2>2, <2>3, <2>4 DEF ApprovedWhatApplies, Applicable
  <2> QED
    BY <2>4, <2>5, <2>6, SameForm DEF loaded, ConflictsAreCurrent
<1>9. CASE Submit \/ SubmitAnswered
  <2>1. UNCHANGED <<loaded, access, values, typedEnd, filled, recurring, approved, conflicts, check>>
        /\ pc' \in {"editing", "submitting", "left"}
    BY <1>9 DEF Submit, SubmitAnswered
  <2>2. TypeOK'
    BY <2>1 DEF TypeOK, loaded
  <2> QED
    BY <2>1, <2>2, SameForm DEF loaded, ConflictsAreCurrent, ApprovedWhatApplies
<1>10. ASSUME NEW acc \in ResourceLists, ResourcesArrive(acc)
       PROVE  FormInv'
  BY <1>0, <1>3, <1>10 DEF ResourcesArrive
<1>11. CASE \E list \in ContractLists : ContractsArrive(list)
  <2>1. /\ contracts' \in ContractLists
        /\ UNCHANGED <<isAdmin, isCreate, access, reserved, values, typedEnd, filled, recurring,
                       approved, conflicts, check, pc>>
    BY <1>11 DEF ContractsArrive
  <2>2. TypeOK'
    BY <2>1 DEF TypeOK
  <2> QED
    BY <2>1, <2>2, SameForm DEF ConflictsAreCurrent, ApprovedWhatApplies
<1>12. CASE \E taken \in SUBSET Blocks : BlocksArrive(taken)
  <2>1. /\ reserved' \in [of : Resources, taken : SUBSET Blocks]
        /\ UNCHANGED <<isAdmin, isCreate, access, contracts, values, typedEnd, filled, recurring,
                       approved, conflicts, check, pc>>
    <3>1. PICK taken \in SUBSET Blocks : BlocksArrive(taken)
      BY <1>12
    <3>2. BlocksResource(values.ids, access) \in Resources
      BY <1>0, <3>1, BlocksOnlyMeans DEF BlocksArrive, BlocksResource, Listed
    <3> QED
      BY <3>1, <3>2 DEF BlocksArrive
  <2>2. TypeOK'
    BY <2>1 DEF TypeOK
  <2> QED
    BY <2>1, <2>2, SameForm DEF ConflictsAreCurrent, ApprovedWhatApplies
<1>13. CASE RestrictionsArrive \/ CheckAnswered \/ LateAnswer
  <2>1. UNCHANGED <<loaded, access, values, typedEnd, filled, recurring, approved, pc>>
    BY <1>13 DEF RestrictionsArrive, CheckAnswered, LateAnswer
  <2>2. /\ check' \in CheckStates /\ conflicts' \in ConflictStates
        /\ conflicts'.found # "unknown" => conflicts'.current \/ check'.live
    <3>1. CASE RestrictionsArrive
      BY <1>0, <3>1 DEF RestrictionsArrive, CheckStates
    <3>2. CASE CheckAnswered
      <4>1. check' \in CheckStates
        BY <1>0, <3>2 DEF CheckAnswered, CheckStates
      <4>2. \/ \E found \in {"none", "some"} : conflicts' = [found |-> found, current |-> TRUE]
            \/ conflicts' = Unknown
        BY <3>2 DEF CheckAnswered
      <4>3. ASSUME NEW found \in {"none", "some"}, conflicts' = [found |-> found, current |-> TRUE]
            PROVE  conflicts' \in ConflictStates /\ conflicts'.current
        BY <4>3 DEF ConflictStates
      <4>4. Unknown \in ConflictStates /\ Unknown.found = "unknown"
        BY DEF Unknown, ConflictStates
      <4> QED
        BY <4>1, <4>2, <4>3, <4>4
    <3>3. CASE LateAnswer
      BY <1>0, <3>3 DEF LateAnswer, CheckStates, ConflictsAreCurrent
    <3> QED
      BY <1>13, <3>1, <3>2, <3>3
  <2>3. TypeOK'
    BY <2>1, <2>2 DEF TypeOK, loaded, CheckStates, ConflictStates
  <2> QED
    BY <2>1, <2>2, <2>3, SameForm DEF loaded, ConflictsAreCurrent, ApprovedWhatApplies
<1>14. CASE UNCHANGED vars
  <2>1. TypeOK'
    BY <1>14 DEF vars, TypeOK
  <2> QED
    BY <1>14, <2>1, SameForm DEF vars, ConflictsAreCurrent, ApprovedWhatApplies
<1> QED
  BY <1>1, <1>2, <1>4, <1>5, <1>6, <1>7, <1>8, <1>9, <1>10, <1>11, <1>12, <1>13, <1>14
     DEF Next, UserStep

-----------------------------------------------------------------------------
(* What the form guarantees *)

(* The form is always in one of the states that the type invariant lists,   *)
(* and a series is in it only while the resources allow one.                *)
THEOREM FormInvariance == Spec => []FormInv
BY InitFormInv, FormInvStep, PTL DEF Spec

(* AutomaticConflictChecker: whatever was asked in whatever order and       *)
(* answered late or not at all, conflicts that are shown with no check on   *)
(* its way are those of the resources, times and recurrence in the form.    *)
THEOREM ConflictsCurrent == Spec => []ConflictsAreCurrent
BY FormInvariance, PTL DEF FormInv

(* The effect on the selected resources: once the list has arrived, a new   *)
(* reservation is for resources that the user may reserve and no others.    *)
THEOREM ReservableOnly == Spec => []OnlyReservableIds
BY FormInvariance, PTL DEF FormInv

(* handleResourcesChange: an approval covers every listed contract that     *)
(* applies to the resources in the form, however they were changed since.   *)
THEOREM ApprovalCovers == Spec => []ApprovedWhatApplies
BY FormInvariance, PTL DEF FormInv

(* The validators and the button: once the resources are listed, a user     *)
(* sends a listed block once, or a range within the durations and the last  *)
(* day of every resource in the list, as a series only where all of those   *)
(* allow it.                                                                *)
THEOREM SentIsReservable == Spec => SubmitsReservable
<1> DEFINE Sends ==
      pc = "editing" /\ pc' = "submitting" /\ ~isAdmin /\ access # None => SentByUser(values, recurring)
<1>1. FormInv /\ [Next]_vars => [Sends]_vars
  <2> SUFFICES ASSUME FormInv, Next, pc = "editing", pc' = "submitting", ~isAdmin, access # None
               PROVE  SentByUser(values, recurring)
    OBVIOUS
  <2>1. Submit
    BY DEF Next, UserStep, Fill, ClickResource, PickBlock, ChangeStart, ChangeEnd, ChangeRecurrence,
           Approve, SubmitAnswered, ResourcesArrive, ContractsArrive, BlocksArrive, RestrictionsArrive,
           CheckAnswered, LateAnswer
  <2>2. Valid /\ (BlocksOnlyMode(values.ids, access) => HasSelectedBlock)
    BY <2>1 DEF Submit, Submittable
  <2>3. BlocksOnlyMode(values.ids, access) <=> BlocksOnly(values.ids, access)
    BY DEF BlocksOnlyMode
  <2>4. recurring => /\ ~BlocksOnly(values.ids, access)
                     /\ \A r \in Listed(values.ids, access) : Attributes[r].allow_recurring
    BY <2>3, CanRecurMeans DEF FormInv, RecursWhereAllowed
  <2>5. CASE BlocksOnly(values.ids, access)
    <3>1. PICK b \in BlockOptions(values, access, reserved) : Selected(b, values)
      BY <2>2, <2>3, <2>5 DEF HasSelectedBlock
    <3>2. b \in Blocks /\ b.of = BlocksResource(values.ids, access) /\ Until(b.of, b.end)
      BY <3>1 DEF BlockOptions
    <3>3. BlocksResource(values.ids, access) \in Listed(values.ids, access)
      BY <2>5, BlocksOnlyMeans DEF BlocksResource
    <3>4. b.end = values.end
      BY <3>1 DEF Selected
    <3> QED
      BY <2>4, <2>5, <3>1, <3>2, <3>3, <3>4 DEF SentByUser
  <2>6. CASE ~BlocksOnly(values.ids, access)
    <3>1. TimesValid(values)
      BY <2>2, <2>3, <2>6 DEF Valid
    <3> QED
      BY <2>4, <2>6, <3>1 DEF SentByUser, TimesValid
  <2> QED
    BY <2>5, <2>6
<1> QED
  BY <1>1, FormInvariance, PTL DEF Spec, SubmitsReservable

=============================================================================

------------------------- MODULE Reservations_proofs -------------------------
(***************************************************************************)
(* Theorems about Reservations, for any accounts, rows, requests, places   *)
(* and access rules.                                                       *)
(***************************************************************************)
EXTENDS Reservations, TLAPS

-----------------------------------------------------------------------------
(* Types *)

(* The idle slot and the empty row are well formed. *)
LEMMA IdleType == Idle \in RequestStates /\ NoRow \in Rows
  BY DEF Idle, RequestStates, NoRow, Rows, Sources, Statuses

(* A row built from an owner, a source, a status and a rule is well formed. *)
LEMMA NewRowType ==
  ASSUME NEW o \in Accounts, NEW src \in Sources, NEW st \in Statuses, NEW rule \in BOOLEAN
  PROVE  NewRow(o, src, st, rule) \in Rows
  BY DEF NewRow, NoRow, Rows, Sources, Statuses

(* The status a payload is given is a status. *)
LEMMA GrantedType ==
  ASSUME NEW a, NEW ps, NEW st \in Statuses \cup {"keep"}
  PROVE  /\ Granted(a, ps, st) \in Statuses \cup {"keep"}
         /\ st # "keep" => Granted(a, ps, st) \in Statuses
  BY DEF Granted, Statuses

(* An edit keeps a row well formed. *)
LEMMA EditedType ==
  ASSUME NEW w \in Rows, NEW d \in RequestStates
  PROVE  Edited(w, d) \in Rows
  BY DEF Edited, Rows, RequestStates, Statuses

(* A well-formed request in, a well-formed state out. *)
LEMMA StartType ==
  ASSUME TypeOK, NEW q \in Requests, NEW d \in RequestStates, Start(q, d)
  PROVE  TypeOK'
<1>1. [d EXCEPT !.pc = "validated"] \in RequestStates
  BY DEF RequestStates
<1> QED
  BY <1>1 DEF Start, TypeOK, database

(* What a handler's first step leaves behind, whichever handler it is. *)
WellFormed(d) ==
  /\ d \in RequestStates
  /\ d.locks = {}
  /\ d.op = "create" => /\ d.res = None
                        /\ d.draft.owner # None /\ d.draft.source = "kuutar"
  /\ d.op \in {"update", "cancel", "split", "delete"} =>
       d.res \in Reservations /\ Manageable(d.res)
  /\ d.draft.cancelledBy = None
  /\ d.op = "update" => d.actor \in Admins \/ d.seen # "cancelled"
  /\ d.op = "split" => d.places # {}

(* A request that arrives is well formed, validated, holds no lock, and only writes its slot. *)
LEMMA Arrival ==
  ASSUME TypeOK, NEW q \in Requests, Arrive(q)
  PROVE  \E d : WellFormed(d) /\ Start(q, d)
<1> USE ConstantsAssumption, IdleType
<1>1. ASSUME NEW a \in Accounts, NEW rule \in RulePayloads, NEW o \in Accounts,
             NEW ps \in OccurrenceLists, NEW st \in StatusPayloads \cup {"pending"},
             CreateStart(q, a, o, ps, rule, st)
      PROVE  \E d : WellFormed(d) /\ Start(q, d)
  <2> DEFINE w == NewRow(o, "kuutar", Granted(a, ps, st), rule)
  <2> DEFINE d == [Idle EXCEPT !.op = "create", !.actor = a, !.hasOcc = TRUE, !.places = ps,
                               !.rule = rule, !.draft = w]
  <2>1. Granted(a, ps, st) \in Statuses
    BY GrantedType DEF Statuses
  <2>2. w \in Rows
    BY <2>1, NewRowType DEF Sources
  <2>3. w.owner # None /\ w.source = "kuutar" /\ w.cancelledBy = None
    BY DEF NewRow, NoRow
  <2>4. Start(q, d)
    BY <1>1 DEF CreateStart
  <2> HIDE DEF w
  <2>5. /\ d \in RequestStates /\ d.locks = {} /\ d.op = "create" /\ d.res = None
        /\ d.draft = w
    BY <2>2 DEF RequestStates, Idle, NoRow
  <2> HIDE DEF d
  <2>6. WellFormed(d)
    BY <2>3, <2>5 DEF WellFormed
  <2> QED
    BY <2>4, <2>6
<1>2. ASSUME NEW a \in Accounts, NEW rule \in RulePayloads, NEW r \in Reservations,
             NEW hasOcc \in BOOLEAN, NEW ps \in OccurrenceLists \cup {{}},
             NEW st \in StatusPayloads \cup {"keep"},
             UpdateStart(q, a, r, hasOcc, ps, rule, st)
      PROVE  \E d : WellFormed(d) /\ Start(q, d)
  <2> DEFINE granted == Granted(a, IF hasOcc THEN ps ELSE places[r], st)
  <2> DEFINE d == [Idle EXCEPT !.op = "update", !.actor = a, !.res = r, !.hasOcc = hasOcc,
                               !.places = ps, !.rule = rule, !.seen = row[r].status,
                               !.status = granted]
  <2>1. granted \in Statuses \cup {"keep"} /\ row[r].status \in Statuses
    BY GrantedType DEF TypeOK, Rows
  <2>2. Start(q, d) /\ Manageable(r)
    BY <1>2 DEF UpdateStart
  <2> HIDE DEF granted
  <2>3. d \in RequestStates
    BY <2>1 DEF RequestStates, Idle, NoRow
  <2>4. /\ d.locks = {} /\ d.op = "update" /\ d.res = r /\ d.actor = a
        /\ d.seen = row[r].status /\ d.draft.cancelledBy = None
    BY DEF Idle, NoRow
  <2>6. a \in Admins \/ row[r].status # "cancelled"
    BY <1>2 DEF UpdateStart, MayEdit, Accounts
  <2>5. WellFormed(d)
    BY <2>2, <2>3, <2>4, <2>6 DEF WellFormed
  <2> QED
    BY <2>2, <2>5
<1>3. ASSUME NEW a \in Accounts, NEW rule \in RulePayloads, NEW r \in Reservations,
             NEW ps \in SUBSET places[r], SplitStart(q, a, r, ps, rule)
      PROVE  \E d : WellFormed(d) /\ Start(q, d)
  <2> DEFINE d == [Idle EXCEPT !.op = "split", !.actor = a, !.res = r, !.places = ps,
                               !.rule = rule]
  <2>1. ps \in SUBSET Places
    BY DEF TypeOK
  <2>2. Start(q, d) /\ Manageable(r) /\ ps # {}
    BY <1>3 DEF SplitStart
  <2>3. WellFormed(d)
    BY <2>1, <2>2 DEF WellFormed, RequestStates, Idle, NoRow
  <2> QED
    BY <2>2, <2>3
<1>4. ASSUME NEW a \in Accounts, NEW r \in Reservations,
             CancelStart(q, a, r) \/ DeleteStart(q, a, r)
      PROVE  \E d : WellFormed(d) /\ Start(q, d)
  <2> DEFINE d(op) == [Idle EXCEPT !.op = op, !.actor = a, !.res = r]
  <2>1. (Start(q, d("cancel")) \/ Start(q, d("delete"))) /\ Manageable(r)
    BY <1>4 DEF CancelStart, DeleteStart
  <2>2. WellFormed(d("cancel")) /\ WellFormed(d("delete"))
    BY <2>1 DEF WellFormed, RequestStates, Idle, NoRow
  <2> QED
    BY <2>1, <2>2
<1> QED
  BY <1>1, <1>2, <1>3, <1>4 DEF Arrive

(* Arrivals keep the types. *)
LEMMA ArriveType ==
  ASSUME TypeOK, NEW q \in Requests, Arrive(q)
  PROVE  TypeOK'
  BY Arrival, StartType DEF WellFormed

(* A request that names a reservation names one of the table. *)
Named ==
  \A q \in Requests :
    req[q].op \in {"update", "cancel", "split", "delete"} => req[q].res \in Reservations

(* Either a slot keeps its request, or it is idle, or a new one has arrived. *)
LEMMA NamedStep ==
  ASSUME TypeOK, Named, Next
  PROVE  Named'
<1>1. ASSUME NEW q \in Requests, Arrive(q) PROVE Named'
  <2>1. PICK d : WellFormed(d) /\ Start(q, d)
    BY <1>1, Arrival
  <2>2. [d EXCEPT !.pc = "validated"].op = d.op /\ [d EXCEPT !.pc = "validated"].res = d.res
    BY <2>1 DEF WellFormed, RequestStates
  <2> QED
    BY <2>1, <2>2 DEF WellFormed, Start, Named, TypeOK
<1>2. ASSUME NEW q \in Requests, Continue(q) PROVE Named'
  <2>1. req' = [req EXCEPT ![q] = req'[q]]
    BY <1>2 DEF Continue, BlockCheck, CreateCommit, UpdateCommit, UpdateNotFound,
                CancelCommit, SplitCopy, SplitMove, SplitCommit, DeleteCommit, TypeOK
  <2>2. req'[q] = Idle \/ (req'[q].op = req[q].op /\ req'[q].res = req[q].res)
    BY <1>2 DEF Continue, BlockCheck, CreateCommit, UpdateCommit, UpdateNotFound,
                CancelCommit, SplitCopy, SplitMove, SplitCommit, DeleteCommit, TypeOK,
                RequestStates
  <2> QED
    BY <2>1, <2>2 DEF Named, Idle, TypeOK
<1>3. ASSUME NEW q \in Requests, Abort(q) PROVE Named'
  BY <1>3 DEF Abort, Named, TypeOK, Idle
<1>4. CASE Elsewhere
  BY <1>4 DEF Elsewhere, BatchImport, OutlookRequest, OutlookCancel, EditResource, EditBlock,
              Named
<1> QED
  BY <1>1, <1>2, <1>3, <1>4 DEF Next

(* Every later step of a request keeps the types. *)
LEMMA ContinueType ==
  ASSUME TypeOK, Named, NEW q \in Requests, Continue(q)
  PROVE  TypeOK'
<1> USE ConstantsAssumption, IdleType
<1> DEFINE d == req[q]
<1>1. d \in RequestStates /\ d.places \in SUBSET Places /\ d.draft \in Rows /\ d.rule \in BOOLEAN
  BY DEF TypeOK, RequestStates
<1>2. CheckedPlaces(d) \in SUBSET Places
  BY <1>1 DEF CheckedPlaces
<1>3. CASE BlockCheck(q)
  <2>1. BlocksOnlyOf(d.places) \in SUBSET Resources
    BY DEF TypeOK, BlocksOnlyOf
  <2>2. [d EXCEPT !.pc = "checked", !.locks = BlocksOnlyOf(d.places)] \in RequestStates
    BY <1>1, <2>1 DEF RequestStates
  <2>3. req' \in [Requests -> RequestStates]
    BY <1>3, <2>2 DEF BlockCheck, TypeOK
  <2> QED
    BY <1>3, <2>3 DEF BlockCheck, TypeOK, database
<1>4. CASE \E r \in Reservations : CreateCommit(q, r)
  BY <1>1, <1>2, <1>4 DEF CreateCommit, TypeOK
<1>5. CASE UpdateCommit(q)
  <2>1. d.res \in Reservations
    BY <1>5 DEF UpdateCommit, ReadyToWrite, Named
  <2>2. Edited(row[d.res], d) \in Rows
    BY <1>1, <2>1, EditedType DEF TypeOK
  <2>3. row' \in [Reservations -> Rows]
    BY <1>5, <2>2 DEF UpdateCommit, TypeOK
  <2>4. /\ places' \in [Reservations -> SUBSET Places]
        /\ protected' \in [Reservations -> SUBSET Places]
    BY <1>1, <1>2, <1>5, <2>1 DEF UpdateCommit, TypeOK
  <2> QED
    BY <1>5, <2>3, <2>4 DEF UpdateCommit, TypeOK
<1>6. CASE UpdateNotFound(q)
  BY <1>6 DEF UpdateNotFound, TypeOK, database
<1>7. CASE CancelCommit(q)
  <2>1. row' \in [Reservations -> Rows]
    <3>1. d.actor \in Accounts \cup {None}
      BY <1>1 DEF RequestStates
    <3> QED
      BY <1>7, <3>1 DEF CancelCommit, TypeOK, Rows, Statuses
  <2> QED
    BY <1>7, <2>1 DEF CancelCommit, TypeOK
<1>8. CASE SplitCopy(q)
  <2>1. d.res \in Reservations
    BY <1>8 DEF SplitCopy, Named
  <2>2. [row[d.res] EXCEPT !.recurring = FALSE, !.source = "kuutar"] \in Rows
    BY <2>1 DEF TypeOK, Rows, Sources
  <2>3. [d EXCEPT !.pc = "copied",
                  !.draft = [row[d.res] EXCEPT !.recurring = FALSE, !.source = "kuutar"]]
          \in RequestStates
    BY <1>1, <2>2 DEF RequestStates
  <2> QED
    BY <1>8, <2>3 DEF SplitCopy, TypeOK, database
<1>9. CASE SplitMove(q)
  <2>1. [d EXCEPT !.pc = "moved"] \in RequestStates
    BY <1>1 DEF RequestStates
  <2> QED
    BY <1>9, <2>1 DEF SplitMove, TypeOK, database
<1>10. CASE \E new \in Reservations : SplitCommit(q, new)
  <2>1. PICK new \in Reservations : SplitCommit(q, new)
    BY <1>10
  <2>2. d.res \in Reservations
    BY <2>1 DEF SplitCommit, Named
  <2>3. d.res # new => [row[d.res] EXCEPT !.recurring = d.rule] \in Rows
    BY <1>1, <2>2 DEF TypeOK, Rows
  <2>4. [d.draft EXCEPT !.recurring = d.rule] \in Rows
    BY <1>1 DEF Rows
  <2>5. row' \in [Reservations -> Rows]
    BY <1>1, <2>1, <2>2, <2>3, <2>4 DEF SplitCommit, TypeOK
  <2> QED
    BY <1>1, <2>1, <2>5 DEF SplitCommit, TypeOK
<1>11. CASE DeleteCommit(q)
  BY <1>11 DEF DeleteCommit, TypeOK, Rows
<1> QED
  BY <1>3, <1>4, <1>5, <1>6, <1>7, <1>8, <1>9, <1>10, <1>11 DEF Continue

(* So do the other writers. *)
LEMMA ElsewhereType ==
  ASSUME TypeOK, Elsewhere
  PROVE  TypeOK'
<1> USE ConstantsAssumption
<1>1. ASSUME NEW a \in Admins, NEW r \in Reservations, NEW o \in Accounts,
             NEW ps \in OccurrenceLists, NEW rule \in RulePayloads, NEW st \in StatusPayloads,
             BatchImport(a, r, o, ps, rule, st)
      PROVE  TypeOK'
  <2>1. NewRow(o, "kuutar", st, rule) \in Rows
    BY NewRowType DEF Sources
  <2> QED
    BY <1>1, <2>1 DEF BatchImport, TypeOK
<1>2. ASSUME NEW r \in Reservations, NEW o \in Accounts, NEW ps \in OccurrenceLists,
             NEW rule \in RulePayloads, OutlookRequest(r, o, ps, rule)
      PROVE  TypeOK'
  <2> DEFINE imported == [row[r] EXCEPT !.owner = o, !.source = "outlook",
                                        !.status = "confirmed", !.recurring = rule]
  <2>1. imported \in Rows
    <3>1. row[r] \in Rows /\ rule \in BOOLEAN /\ o \in Accounts \cup {None}
      BY DEF TypeOK
    <3> QED
      BY <3>1 DEF Rows, Sources, Statuses
  <2>2. row' = [row EXCEPT ![r] = imported]
    BY <1>2 DEF OutlookRequest, TypeOK
  <2> HIDE DEF imported
  <2>3. row' \in [Reservations -> Rows]
    BY <2>1, <2>2 DEF TypeOK
  <2>4. places' \in [Reservations -> SUBSET Places]
    BY <1>2 DEF OutlookRequest, TypeOK
  <2> QED
    BY <1>2, <2>3, <2>4 DEF OutlookRequest, TypeOK
<1>3. CASE \E r \in Reservations : OutlookCancel(r)
  <2>1. PICK r \in Reservations : OutlookCancel(r)
    BY <1>3
  <2>2. [row[r] EXCEPT !.status = "cancelled"] \in Rows
    BY DEF TypeOK, Rows, Statuses
  <2> QED
    BY <2>1, <2>2 DEF OutlookCancel, TypeOK
<1>4. CASE \E rsc \in Resources : EditResource(rsc)
  BY <1>4 DEF EditResource, TypeOK
<1>5. CASE \E p \in Places : EditBlock(p)
  BY <1>5 DEF EditBlock, TypeOK
<1> QED
  BY <1>1, <1>2, <1>3, <1>4, <1>5 DEF Elsewhere

(* Every step keeps the types. *)
LEMMA TypeStep ==
  ASSUME TypeOK, Named, [Next]_vars
  PROVE  TypeOK' /\ Named'
<1>1. ASSUME NEW q \in Requests, Abort(q) PROVE TypeOK'
  BY <1>1, IdleType DEF Abort, TypeOK, database
<1>2. CASE UNCHANGED vars
  BY <1>2 DEF vars, TypeOK, Named
<1> QED
  BY <1>1, <1>2, NamedStep, ArriveType, ContinueType, ElsewhereType DEF Next

(* Every reachable state is well typed, whatever the constants: no handler *)
(* writes a row or keeps a local value outside its column's domain.        *)
THEOREM TypeCorrect == Spec => []TypeOK
<1>1. Init => TypeOK /\ Named
  BY ConstantsAssumption, IdleType DEF Init, TypeOK, Named, Idle
<1>2. TypeOK /\ Named /\ [Next]_vars => (TypeOK /\ Named)'
  BY TypeStep
<1> QED
  BY <1>1, <1>2, PTL DEF Spec

-----------------------------------------------------------------------------
(* Exclusive booking *)

(* A row with checked places is a reservation made in Kuutar, and the places *)
(* are among its occurrences.                                                *)
ProtectedRows ==
  \A r \in Reservations :
    /\ protected[r] # {} => Exists(r) /\ row[r].source = "kuutar"
    /\ protected[r] \subseteq places[r]

(* A request about a reservation is about an existing one of Kuutar; a row *)
(* to be inserted has an owner.                                            *)
RequestRow(d) ==
  /\ d.op \in {"update", "cancel", "split", "delete"} =>
       Exists(d.res) /\ row[d.res].source = "kuutar"
  /\ d.op = "create" => d.res = None /\ d.draft.owner # None /\ d.draft.source = "kuutar"
  /\ d.pc \in {"copied", "moved"} => d.draft.owner # None
  /\ d.locks # {} => d.pc = "checked"

RequestRows == \A q \in Requests : RequestRow(req[q])

(* No resource row is locked twice. *)
LocksDisjoint == \A q, q2 \in Requests : q # q2 => req[q].locks \cap req[q2].locks = {}

(* While the locks are held, what was found free stays free. *)
FreeOfOthers(d) ==
  \A r \in Reservations \ {d.res} :
    \A p \in CheckedPlaces(d), p2 \in Held(r) : ~Overlap(p, p2)

CheckedIsFree == \A q \in Requests : FreeOfOthers(req[q])

HeldDisjoint ==
  \A r, r2 \in Reservations : r # r2 =>
    \A p \in Held(r), p2 \in Held(r2) : ~Overlap(p, p2)

Inv ==
  /\ TypeOK
  /\ Named
  /\ ProtectedRows
  /\ RequestRows
  /\ LocksDisjoint
  /\ CheckedIsFree
  /\ HeldDisjoint

(* An idle slot holds no lock. *)
LEMMA IdleRequest ==
  RequestRow(Idle) /\ RequestRow(Idle)' /\ Idle.locks = {} /\ CheckedPlaces(Idle) = {}
  BY DEF RequestRow, Idle, CheckedPlaces

(* Overlap is symmetric and stays within a resource. *)
LEMMA OverlapIsMutual == \A p, p2 : Overlap(p, p2) => Overlap(p2, p) /\ p.rsc = p2.rsc
  BY DEF Overlap

(* What a step means to the ledger. *)
LedgerMove == Ledger!Next \/ UNCHANGED [r \in Reservations |-> Held(r)]

(* A step of one request that writes no table. *)
LEMMA RequestStep ==
  ASSUME Inv, TypeOK', Named', UNCHANGED database,
         NEW q \in Requests, NEW d,
         req' = [req EXCEPT ![q] = d],
         RequestRow(d),
         \A q2 \in Requests \ {q} : d.locks \cap req[q2].locks = {},
         FreeOfOthers(d)
  PROVE  Inv' /\ LedgerMove
<1>1. \A r : Held(r)' = Held(r) /\ Exists(r)' = Exists(r)
  BY DEF Held, Active, Live, Exists, database
<1>2. req'[q] = d /\ \A q2 \in Requests \ {q} : req'[q2] = req[q2]
  BY DEF Inv, TypeOK
<1>3. ProtectedRows'
  BY <1>1 DEF Inv, ProtectedRows, database
<1>4. RequestRows'
  BY <1>1, <1>2 DEF Inv, RequestRows, RequestRow, database
<1>5. LocksDisjoint'
  BY <1>2 DEF Inv, LocksDisjoint
<1>6. CheckedIsFree'
  BY <1>1, <1>2 DEF Inv, CheckedIsFree, FreeOfOthers, CheckedPlaces
<1>7. HeldDisjoint'
  BY <1>1 DEF Inv, HeldDisjoint
<1> QED
  BY <1>1, <1>3, <1>4, <1>5, <1>6, <1>7 DEF Inv, LedgerMove

(* What a booking holds are places. *)
LEMMA HeldArePlaces ==
  ASSUME TypeOK, TypeOK', NEW r \in Reservations
  PROVE  Held(r) \subseteq Places /\ Held(r)' \subseteq Places
  BY DEF Held, TypeOK

(* The blocks and blocks_only may change freely. *)
LEMMA NothingMoves ==
  ASSUME Inv, TypeOK', Named', UNCHANGED <<row, places, req, protected>>
  PROVE  Inv' /\ LedgerMove
<1>1. \A r : Held(r)' = Held(r)
  BY DEF Held, Active, Live, Exists
<1>2. Inv'
  BY <1>1 DEF Inv, ProtectedRows, RequestRows, RequestRow, LocksDisjoint, CheckedIsFree,
              FreeOfOthers, CheckedPlaces, HeldDisjoint, Exists
<1> QED
  BY <1>1, <1>2 DEF LedgerMove

(* Rows stay, and those made in Kuutar stay Kuutar's. *)
RowsStay ==
  \A r \in Reservations : Exists(r) =>
    Exists(r)' /\ (row[r].source = "kuutar" => row'[r].source = "kuutar")

(* What s holds becomes less, or what request q has checked for it. *)
LedgerStep(q, s) ==
  /\ \A r \in Reservations \ {s} : Held(r)' = Held(r)
  /\ \/ Held(s)' \subseteq Held(s)
     \/ /\ q \in Requests
        /\ Held(s)' \subseteq CheckedPlaces(req[q])
        /\ s = req[q].res \/ req[q].res = None
        /\ req'[q] = Idle

(* A step that writes the tables, and ends at most the request q. *)
LEMMA TableStep ==
  ASSUME Inv, TypeOK', Named', ProtectedRows', RowsStay,
         NEW q, NEW s \in Reservations,
         req' = req \/ req' = [req EXCEPT ![q] = Idle],
         LedgerStep(q, s)
  PROVE  Inv' /\ LedgerMove
<1> USE ConstantsAssumption, IdleRequest
<1>1. \A q2 \in Requests : req'[q2] = req[q2] \/ req'[q2] = Idle
  BY DEF Inv, TypeOK
<1>2. RequestRows'
  <2> SUFFICES ASSUME NEW q2 \in Requests PROVE RequestRow(req[q2])'
    BY DEF RequestRows
  <2>1. CASE req'[q2] = Idle
    BY <2>1 DEF RequestRow, Idle
  <2>2. CASE req'[q2] = req[q2]
    BY <2>2 DEF Inv, Named, RequestRows, RequestRow, RowsStay
  <2> QED
    BY <1>1, <2>1, <2>2
<1>3. LocksDisjoint'
  BY <1>1 DEF Inv, LocksDisjoint
<1>4. CASE Held(s)' \subseteq Held(s)
  <2>1. \A r \in Reservations : Held(r)' \subseteq Held(r)
    BY <1>4 DEF LedgerStep
  <2>2. CheckedIsFree'
    BY <1>1, <2>1 DEF Inv, CheckedIsFree, FreeOfOthers, CheckedPlaces, Idle
  <2>3. HeldDisjoint'
    BY <2>1 DEF Inv, HeldDisjoint
  <2>4. Ledger!Release(s, Held(s) \ Held(s)')
    BY <1>4 DEF LedgerStep, Ledger!Release
  <2>5. Ledger!Next
    <3>1. Held(s) \ Held(s)' \in SUBSET Places
      BY HeldArePlaces DEF Inv
    <3> QED
      BY <2>4, <3>1 DEF Ledger!Next
  <2> QED
    BY <1>2, <1>3, <2>2, <2>3, <2>5 DEF Inv, LedgerMove
<1>5. CASE /\ q \in Requests
           /\ Held(s)' \subseteq CheckedPlaces(req[q])
           /\ s = req[q].res \/ req[q].res = None
           /\ req'[q] = Idle
  <2>1. \A r \in Reservations \ {s} :
          \A p \in Held(s)', p2 \in Held(r)' : ~Overlap(p, p2) /\ ~Overlap(p2, p)
    BY <1>5, OverlapIsMutual DEF LedgerStep, Inv, CheckedIsFree, FreeOfOthers
  <2>2. HeldDisjoint'
    BY <2>1 DEF LedgerStep, Inv, HeldDisjoint
  <2>3. ASSUME NEW q2 \in Requests \ {q}, NEW p \in CheckedPlaces(req[q2]),
               NEW p2 \in Held(s)'
        PROVE  ~Overlap(p, p2)
    BY <1>5, <2>3, OverlapIsMutual DEF Inv, LocksDisjoint, CheckedPlaces
  <2>4. ASSUME NEW q2 \in Requests PROVE FreeOfOthers(req[q2])'
    <3>1. CASE req'[q2] = Idle
      BY <3>1 DEF FreeOfOthers, CheckedPlaces, Idle
    <3>2. CASE req'[q2] # Idle
      <4>1. req'[q2] = req[q2] /\ q2 # q
        BY <1>1, <1>5, <3>2
      <4>2. CheckedPlaces(req[q2])' = CheckedPlaces(req[q2])
        BY <4>1 DEF CheckedPlaces
      <4> QED
        BY <4>1, <4>2, <2>3 DEF LedgerStep, Inv, CheckedIsFree, FreeOfOthers
    <3> QED
      BY <3>1, <3>2
  <2>5. Ledger!Book(s, Held(s)')
    <3>1. Ledger!FreeFor(s, Held(s)')
      BY <2>1 DEF Ledger!FreeFor, LedgerStep
    <3> QED
      BY <3>1 DEF LedgerStep, Ledger!Book
  <2>6. Ledger!Next
    <3>1. Held(s)' \in SUBSET Places
      BY HeldArePlaces DEF Inv
    <3> QED
      BY <2>5, <3>1 DEF Ledger!Next
  <2> QED
    BY <1>2, <1>3, <2>2, <2>4, <2>6 DEF Inv, CheckedIsFree, LedgerMove
<1> QED
  BY <1>4, <1>5 DEF LedgerStep

-----------------------------------------------------------------------------
(* Each action is one of the two kinds of step. *)

(* An arrival keeps the invariant: it holds nothing yet. *)
LEMMA ArriveInv ==
  ASSUME Inv, TypeOK', Named', NEW q \in Requests, Arrive(q)
  PROVE  Inv' /\ LedgerMove
<1>1. PICK d : WellFormed(d) /\ Start(q, d)
  BY Arrival DEF Inv
<1> DEFINE e == [d EXCEPT !.pc = "validated"]
<1>2. /\ e.pc = "validated" /\ e.op = d.op /\ e.res = d.res
      /\ e.draft = d.draft /\ e.locks = {}
  BY <1>1 DEF WellFormed, RequestStates
<1>3. req' = [req EXCEPT ![q] = e] /\ UNCHANGED database
  BY <1>1 DEF Start
<1> HIDE DEF e
<1>4. RequestRow(e)
  BY <1>1, <1>2 DEF WellFormed, RequestRow, Manageable, Live
<1>5. FreeOfOthers(e)
  BY <1>2 DEF FreeOfOthers, CheckedPlaces
<1> QED
  BY <1>2, <1>3, <1>4, <1>5, RequestStep

(* A request that ends without writing keeps it. *)
LEMMA GiveUp ==
  ASSUME Inv, TypeOK', Named', NEW q \in Requests,
         req' = [req EXCEPT ![q] = Idle], UNCHANGED database
  PROVE  Inv' /\ LedgerMove
<1>1. FreeOfOthers(Idle)
  BY IdleRequest DEF FreeOfOthers
<1> QED
  BY <1>1, IdleRequest, RequestStep

(* The lock is granted and the places are free, both at this instant. *)
LEMMA BlockCheckInv ==
  ASSUME Inv, TypeOK', Named', NEW q \in Requests, BlockCheck(q)
  PROVE  Inv' /\ LedgerMove
<1> DEFINE d == req[q]
<1> DEFINE e == [d EXCEPT !.pc = "checked", !.locks = BlocksOnlyOf(d.places)]
<1>1. CASE ~BlockRuleHolds(d)
  BY <1>1, GiveUp DEF BlockCheck
<1>2. CASE BlockRuleHolds(d)
  <2>1. req' = [req EXCEPT ![q] = e] /\ UNCHANGED database
    BY <1>2 DEF BlockCheck, Inv, TypeOK
  <2>2. /\ e.pc = "checked" /\ e.op = d.op /\ e.res = d.res /\ e.draft = d.draft
        /\ e.places = d.places /\ e.locks = BlocksOnlyOf(d.places)
    BY DEF Inv, TypeOK, RequestStates
  <2>3. \A q2 \in Requests \ {q} : e.locks \cap req[q2].locks = {}
    BY <2>2 DEF BlockCheck, LockFree
  <2> HIDE DEF e
  <2>4. RequestRow(e)
    BY <2>2 DEF Inv, RequestRows, RequestRow
  <2>5. FreeOfOthers(e)
    <3> SUFFICES ASSUME NEW r \in Reservations \ {d.res},
                        NEW p \in CheckedPlaces(e), NEW p2 \in Held(r)
                 PROVE  ~Overlap(p, p2)
      BY <2>2 DEF FreeOfOthers
    <3>1. p \in d.places /\ p.rsc \in blocksOnly
      BY <2>2 DEF CheckedPlaces, BlocksOnlyOf
    <3>2. ~Taken(p, d.res)
      BY <1>2, <3>1 DEF BlockRuleHolds
    <3>3. Active(r) /\ p2 \in places[r]
      BY DEF Held, Inv, ProtectedRows
    <3> QED
      BY <3>2, <3>3 DEF Taken
  <2> QED
    BY <2>1, <2>3, <2>4, <2>5, RequestStep
<1> QED
  BY <1>1, <1>2

(* A create makes its checked places held and gives up its locks. *)
LEMMA CreateInv ==
  ASSUME Inv, TypeOK', Named', NEW q \in Requests, NEW r \in Reservations, CreateCommit(q, r)
  PROVE  Inv' /\ LedgerMove
<1> DEFINE d == req[q]
<1>1. /\ ~Exists(r)
      /\ d.res = None /\ d.draft.owner # None /\ d.draft.source = "kuutar"
  BY DEF CreateCommit, ReadyToWrite, Inv, RequestRows, RequestRow
<1>2. /\ row'[r] = d.draft /\ places'[r] = d.places /\ protected'[r] = CheckedPlaces(d)
      /\ \A s \in Reservations \ {r} :
           row'[s] = row[s] /\ places'[s] = places[s] /\ protected'[s] = protected[s]
      /\ req' = [req EXCEPT ![q] = Idle] /\ req'[q] = Idle
  BY DEF CreateCommit, Inv, TypeOK
<1>3. ProtectedRows'
  BY <1>1, <1>2 DEF ProtectedRows, Inv, Exists, CheckedPlaces
<1>4. RowsStay
  BY <1>1, <1>2 DEF RowsStay, Exists
<1>5. LedgerStep(q, r)
  BY <1>1, <1>2 DEF LedgerStep, Held, Active, Live, Exists
<1> QED
  BY <1>2, <1>3, <1>4, <1>5, TableStep

(* An edit replaces what the row held by what it has checked. *)
LEMMA UpdateInv ==
  ASSUME Inv, TypeOK', Named', NEW q \in Requests, UpdateCommit(q)
  PROVE  Inv' /\ LedgerMove
<1> DEFINE d == req[q]
<1>0. PICK r \in Reservations : r = req[q].res
  BY DEF UpdateCommit, ReadyToWrite, Inv, Named
<1>1. r \in Reservations /\ Live(r) /\ row[r].source = "kuutar" /\ row[r] \in Rows
  BY <1>0 DEF UpdateCommit, ReadyToWrite, Inv, Named, RequestRows, RequestRow, TypeOK
<1>2. /\ row'[r] = Edited(row[r], d)
      /\ places'[r] = IF d.hasOcc THEN d.places ELSE places[r]
      /\ protected'[r] = IF d.hasOcc THEN CheckedPlaces(d)
                         ELSE IF row[r].status = "cancelled" THEN {} ELSE protected[r]
      /\ \A s \in Reservations \ {r} :
           row'[s] = row[s] /\ places'[s] = places[s] /\ protected'[s] = protected[s]
      /\ req' = [req EXCEPT ![q] = Idle] /\ req'[q] = Idle
  BY <1>0, <1>1 DEF UpdateCommit, Inv, TypeOK
<1>3. /\ row'[r].owner = row[r].owner /\ row'[r].source = row[r].source
      /\ row'[r].deleted = row[r].deleted
  BY <1>1, <1>2 DEF Edited, Rows
<1>4. ProtectedRows'
  BY <1>1, <1>2, <1>3 DEF ProtectedRows, Inv, Exists, Live, CheckedPlaces
<1>5. RowsStay
  BY <1>2, <1>3 DEF RowsStay, Exists
<1>6. LedgerStep(q, r)
  <2>1. \A s \in Reservations \ {r} : Held(s)' = Held(s)
    BY <1>2 DEF Held, Active, Live, Exists
  <2>2. CASE d.hasOcc
    <3>1. Held(r)' \subseteq CheckedPlaces(d)
      BY <1>2, <2>2 DEF Held
    <3> QED
      BY <1>0, <1>2, <2>1, <3>1 DEF LedgerStep
  <2>3. CASE ~d.hasOcc
    <3>1. row[r].status = "cancelled" => Held(r)' = {}
      BY <1>2, <2>3 DEF Held
    <3>2. row[r].status # "cancelled" => Held(r) = protected[r]
      BY <1>1 DEF Held, Active
    <3>3. Held(r)' \subseteq Held(r)
      BY <1>2, <2>3, <3>1, <3>2 DEF Held
    <3> QED
      BY <2>1, <3>3 DEF LedgerStep
  <2> QED
    BY <2>2, <2>3
<1> QED
  BY <1>1, <1>2, <1>4, <1>5, <1>6, TableStep

(* A cancellation lets go of everything. *)
LEMMA CancelInv ==
  ASSUME Inv, TypeOK', Named', NEW q \in Requests, CancelCommit(q)
  PROVE  Inv' /\ LedgerMove
<1> DEFINE d == req[q]
<1>0. PICK r \in Reservations : r = req[q].res
  BY DEF CancelCommit, Inv, Named
<1>1. r \in Reservations /\ row[r] \in Rows
  BY <1>0 DEF CancelCommit, Inv, Named, TypeOK
<1>2. CASE ~Cancellable(r)
  BY <1>0, <1>2, GiveUp DEF CancelCommit, database
<1>3. CASE Cancellable(r)
  <2>1. /\ row' = [row EXCEPT ![r].status = "cancelled", ![r].cancelledBy = d.actor]
        /\ req' = [req EXCEPT ![q] = Idle] /\ places' = places /\ protected' = protected
    BY <1>0, <1>3 DEF CancelCommit
  <2>2. /\ row'[r].owner = row[r].owner /\ row'[r].source = row[r].source
        /\ row'[r].status = "cancelled"
        /\ \A s \in Reservations \ {r} : row'[s] = row[s]
    BY <1>1, <2>1 DEF Inv, TypeOK, Rows
  <2>3. ProtectedRows'
    BY <2>1, <2>2 DEF ProtectedRows, Inv, Exists
  <2>4. RowsStay
    BY <2>2 DEF RowsStay, Exists
  <2>5. LedgerStep(q, r)
    <3>1. \A s \in Reservations \ {r} : Held(s)' = Held(s)
      BY <2>1, <2>2 DEF Held, Active, Live, Exists
    <3>2. Held(r)' = {}
      BY <2>2 DEF Held, Active
    <3> QED
      BY <3>1, <3>2 DEF LedgerStep
  <2> QED
    BY <1>1, <2>1, <2>3, <2>4, <2>5, TableStep
<1> QED
  BY <1>2, <1>3

(* The copy of a split is not visible yet. *)
LEMMA SplitCopyInv ==
  ASSUME Inv, TypeOK', Named', NEW q \in Requests, SplitCopy(q)
  PROVE  Inv' /\ LedgerMove
<1> DEFINE d == req[q]
<1> DEFINE w == [row[d.res] EXCEPT !.recurring = FALSE, !.source = "kuutar"]
<1> DEFINE e == [d EXCEPT !.pc = "copied", !.draft = w]
<1>1. CASE ~Live(d.res)
  BY <1>1, GiveUp DEF SplitCopy
<1>2. CASE Live(d.res)
  <2>1. d.op = "split" /\ d.pc = "validated" /\ d.locks = {} /\ d.res \in Reservations
    BY DEF SplitCopy, Inv, Named, RequestRows, RequestRow
  <2>2. w.owner = row[d.res].owner
    BY <2>1 DEF Inv, TypeOK, Rows
  <2>3. row[d.res].owner # None
    BY <1>2 DEF Live, Exists
  <2>4. req' = [req EXCEPT ![q] = e] /\ UNCHANGED database
    BY <1>2 DEF SplitCopy, Inv, TypeOK
  <2> HIDE DEF w
  <2>5. e.pc = "copied" /\ e.op = d.op /\ e.res = d.res /\ e.draft = w /\ e.locks = {}
    BY <2>1 DEF Inv, TypeOK, RequestStates
  <2> HIDE DEF e
  <2>6. RequestRow(e)
    BY <2>1, <2>2, <2>3, <2>5 DEF RequestRow, Inv, RequestRows
  <2>7. FreeOfOthers(e)
    BY <2>5 DEF FreeOfOthers, CheckedPlaces
  <2> QED
    BY <2>4, <2>5, <2>6, <2>7, RequestStep
<1> QED
  BY <1>1, <1>2

(* Neither are the rows it moves. *)
LEMMA SplitMoveInv ==
  ASSUME Inv, TypeOK', Named', NEW q \in Requests, SplitMove(q)
  PROVE  Inv' /\ LedgerMove
<1> DEFINE d == req[q]
<1> DEFINE e == [d EXCEPT !.pc = "moved"]
<1>1. CASE req' = [req EXCEPT ![q] = Idle]
  BY <1>1, GiveUp DEF SplitMove
<1>2. CASE req' = [req EXCEPT ![q].pc = "moved"]
  <2>1. d.op = "split" /\ d.pc = "copied" /\ d.locks = {} /\ d.draft.owner # None
    BY DEF SplitMove, Inv, RequestRows, RequestRow
  <2>2. req' = [req EXCEPT ![q] = e] /\ UNCHANGED database
    BY <1>2 DEF SplitMove, Inv, TypeOK
  <2>3. e.pc = "moved" /\ e.op = d.op /\ e.res = d.res /\ e.draft = d.draft /\ e.locks = {}
    BY <2>1 DEF Inv, TypeOK, RequestStates
  <2> HIDE DEF e
  <2>4. RequestRow(e)
    BY <2>1, <2>3 DEF RequestRow, Inv, RequestRows
  <2>5. FreeOfOthers(e)
    BY <2>3 DEF FreeOfOthers, CheckedPlaces
  <2> QED
    BY <2>2, <2>3, <2>4, <2>5, RequestStep
<1> QED
  BY <1>1, <1>2 DEF SplitMove

(* A split takes the moved places out of what the row holds. *)
LEMMA SplitCommitInv ==
  ASSUME Inv, TypeOK', Named', NEW q \in Requests, NEW new \in Reservations,
         SplitCommit(q, new)
  PROVE  Inv' /\ LedgerMove
<1> DEFINE d == req[q]
<1>0. PICK r \in Reservations : r = req[q].res
  BY DEF SplitCommit, Inv, Named
<1>1. /\ r \in Reservations /\ Exists(r) /\ ~Exists(new)
      /\ d.draft.owner # None
      /\ row[r] \in Rows
  BY <1>0 DEF SplitCommit, Inv, Named, RequestRows, RequestRow, TypeOK
<1>2. protected[new] = {} /\ r # new
  BY <1>1 DEF Inv, ProtectedRows
<1>3. /\ row'[new] = d.draft /\ row'[r] = [row[r] EXCEPT !.recurring = d.rule]
      /\ \A s \in Reservations \ {r, new} : row'[s] = row[s]
  BY <1>0, <1>1, <1>2 DEF SplitCommit, Inv, TypeOK
<1>4. /\ places'[r] = places[r] \ d.places
      /\ \A s \in Reservations \ {r, new} : places'[s] = places[s]
      /\ protected'[r] = protected[r] \ d.places
      /\ \A s \in Reservations \ {r} : protected'[s] = protected[s]
      /\ req' = [req EXCEPT ![q] = Idle]
  BY <1>0, <1>1, <1>2 DEF SplitCommit, Inv, TypeOK
<1>5. /\ row'[r].owner = row[r].owner /\ row'[r].source = row[r].source
      /\ row'[r].deleted = row[r].deleted /\ row'[r].status = row[r].status
  BY <1>1, <1>3 DEF Rows
<1>6. ProtectedRows'
  <2> SUFFICES ASSUME NEW s \in Reservations
               PROVE  /\ protected'[s] # {} => Exists(s)' /\ row'[s].source = "kuutar"
                      /\ protected'[s] \subseteq places'[s]
    BY DEF ProtectedRows
  <2>1. /\ protected[s] # {} => Exists(s) /\ row[s].source = "kuutar"
        /\ protected[s] \subseteq places[s]
    BY DEF Inv, ProtectedRows
  <2>2. CASE s = r
    BY <1>4, <1>5, <2>1, <2>2 DEF Exists
  <2>3. CASE s = new
    BY <1>2, <1>4, <2>3
  <2>4. CASE s \notin {r, new}
    BY <1>3, <1>4, <2>1, <2>4 DEF Exists
  <2> QED
    BY <2>2, <2>3, <2>4
<1>7. RowsStay
  BY <1>1, <1>3, <1>5 DEF RowsStay, Exists
<1>8. LedgerStep(q, r)
  <2>1. \A s \in Reservations \ {r, new} : Held(s)' = Held(s)
    BY <1>3, <1>4 DEF Held, Active, Live, Exists
  <2>2. Held(new)' = {} /\ Held(new) = {}
    BY <1>2, <1>4 DEF Held
  <2>3. Held(r)' \subseteq Held(r)
    BY <1>4, <1>5 DEF Held, Active, Live, Exists
  <2> QED
    BY <2>1, <2>2, <2>3 DEF LedgerStep
<1> QED
  BY <1>1, <1>4, <1>6, <1>7, <1>8, TableStep

(* A deletion lets go of everything. *)
LEMMA DeleteInv ==
  ASSUME Inv, TypeOK', Named', NEW q \in Requests, DeleteCommit(q)
  PROVE  Inv' /\ LedgerMove
<1>0. PICK r \in Reservations : r = req[q].res
  BY DEF DeleteCommit, Inv, Named
<1>1. r \in Reservations /\ row[r] \in Rows
  BY <1>0 DEF DeleteCommit, Inv, Named, TypeOK
<1>2. /\ row' = [row EXCEPT ![r].deleted = TRUE]
      /\ req' = [req EXCEPT ![q] = Idle] /\ places' = places /\ protected' = protected
  BY <1>0 DEF DeleteCommit
<1>3. /\ row'[r].owner = row[r].owner /\ row'[r].source = row[r].source
      /\ row'[r].deleted
      /\ \A s \in Reservations \ {r} : row'[s] = row[s]
  BY <1>1, <1>2 DEF Inv, TypeOK, Rows
<1>4. ProtectedRows'
  BY <1>2, <1>3 DEF ProtectedRows, Inv, Exists
<1>5. RowsStay
  BY <1>3 DEF RowsStay, Exists
<1>6. LedgerStep(q, r)
  <2>1. \A s \in Reservations \ {r} : Held(s)' = Held(s)
    BY <1>2, <1>3 DEF Held, Active, Live, Exists
  <2>2. Held(r)' = {}
    BY <1>3 DEF Held, Active, Live
  <2> QED
    BY <2>1, <2>2 DEF LedgerStep
<1> QED
  BY <1>1, <1>2, <1>4, <1>5, <1>6, TableStep

(* Writers that check nothing: the rows they write have no checked places. *)
LEMMA ElsewhereInv ==
  ASSUME Inv, TypeOK', Named', Elsewhere
  PROVE  Inv' /\ LedgerMove
<1>1. ASSUME NEW a \in Admins, NEW r \in Reservations, NEW o \in Accounts,
             NEW ps \in OccurrenceLists, NEW rule \in RulePayloads, NEW st \in StatusPayloads,
             BatchImport(a, r, o, ps, rule, st)
      PROVE  Inv' /\ LedgerMove
  <2>1. ~Exists(r) /\ protected[r] = {} /\ protected' = protected /\ req' = req
    BY <1>1 DEF BatchImport, Inv, ProtectedRows
  <2>2. \A s \in Reservations \ {r} : row'[s] = row[s] /\ places'[s] = places[s]
    BY <1>1 DEF BatchImport, Inv, TypeOK
  <2>3. ProtectedRows'
    BY <2>1, <2>2 DEF ProtectedRows, Inv, Exists
  <2>4. RowsStay
    BY <2>1, <2>2 DEF RowsStay, Exists
  <2>5. LedgerStep(None, r)
    BY <2>1, <2>2 DEF LedgerStep, Held, Active, Live, Exists
  <2> QED
    BY <2>1, <2>3, <2>4, <2>5, TableStep
<1>2. ASSUME NEW r \in Reservations, NEW o \in Accounts, NEW ps \in OccurrenceLists,
             NEW rule \in RulePayloads, OutlookRequest(r, o, ps, rule)
      PROVE  Inv' /\ LedgerMove
  <2>1. protected[r] = {} /\ protected' = protected /\ req' = req
    BY <1>2 DEF OutlookRequest, Inv, ProtectedRows
  <2>2. \A s \in Reservations \ {r} : row'[s] = row[s] /\ places'[s] = places[s]
    BY <1>2 DEF OutlookRequest, Inv, TypeOK
  <2>3. row'[r].owner = o /\ o # None
    BY <1>2, ConstantsAssumption DEF OutlookRequest, Inv, TypeOK, Rows
  <2>4. Exists(r) => row[r].source # "kuutar"
    BY <1>2 DEF OutlookRequest
  <2>5. ProtectedRows'
    BY <2>1, <2>2 DEF ProtectedRows, Inv, Exists
  <2>6. RowsStay
    BY <2>2, <2>3, <2>4 DEF RowsStay, Exists
  <2>7. LedgerStep(None, r)
    BY <2>1, <2>2 DEF LedgerStep, Held, Active, Live, Exists
  <2> QED
    BY <2>1, <2>5, <2>6, <2>7, TableStep
<1>3. ASSUME NEW r \in Reservations, OutlookCancel(r)
      PROVE  Inv' /\ LedgerMove
  <2>1. protected' = protected /\ places' = places /\ req' = req
    BY <1>3 DEF OutlookCancel
  <2>2. /\ \A s \in Reservations \ {r} : row'[s] = row[s]
        /\ row'[r].owner = row[r].owner /\ row'[r].source = row[r].source
        /\ row'[r].status = "cancelled"
    BY <1>3 DEF OutlookCancel, Inv, TypeOK, Rows
  <2>3. ProtectedRows'
    BY <2>1, <2>2 DEF ProtectedRows, Inv, Exists
  <2>4. RowsStay
    BY <2>2 DEF RowsStay, Exists
  <2>5. LedgerStep(None, r)
    BY <2>1, <2>2 DEF LedgerStep, Held, Active, Live, Exists
  <2> QED
    BY <2>1, <2>3, <2>4, <2>5, TableStep
<1>4. CASE UNCHANGED <<row, places, req, protected>>
  BY <1>4, NothingMoves
<1>5. CASE (\E rsc \in Resources : EditResource(rsc)) \/ (\E p \in Places : EditBlock(p))
  BY <1>4, <1>5 DEF EditResource, EditBlock
<1> QED
  BY <1>1, <1>2, <1>3, <1>5 DEF Elsewhere

(* Every later step of a request keeps the invariant. *)
LEMMA ContinueInv ==
  ASSUME Inv, TypeOK', Named', NEW q \in Requests, Continue(q)
  PROVE  Inv' /\ LedgerMove
<1>1. CASE UpdateNotFound(q)
  BY <1>1, GiveUp DEF UpdateNotFound
<1> QED
  BY <1>1, BlockCheckInv, CreateInv, UpdateInv, CancelInv, SplitCopyInv, SplitMoveInv,
     SplitCommitInv, DeleteInv DEF Continue

(* Every step keeps the invariant. *)
LEMMA InvStep ==
  ASSUME Inv, [Next]_vars
  PROVE  Inv' /\ LedgerMove
<1>1. TypeOK' /\ Named'
  BY TypeStep DEF Inv
<1>2. ASSUME NEW q \in Requests, Abort(q) PROVE Inv' /\ LedgerMove
  BY <1>1, <1>2, GiveUp DEF Abort
<1>3. CASE UNCHANGED vars
  BY <1>1, <1>3, NothingMoves DEF vars
<1>4. CASE Elsewhere
  BY <1>1, <1>4, ElsewhereInv
<1> QED
  BY <1>1, <1>2, <1>3, <1>4, ArriveInv, ContinueInv DEF Next

(* The inductive invariant: what a checked request may rely on until it commits. *)
THEOREM Invariance == Spec => []Inv
<1>1. Init => Inv
  <2> SUFFICES ASSUME Init PROVE Inv
    OBVIOUS
  <2>1. TypeOK /\ Named
    BY ConstantsAssumption, IdleType DEF Init, TypeOK, Named, Idle
  <2>2. RequestRows /\ LocksDisjoint
    BY IdleRequest DEF Init, RequestRows, LocksDisjoint
  <2>3. ProtectedRows /\ CheckedIsFree /\ HeldDisjoint
    BY DEF Init, ProtectedRows, CheckedIsFree, FreeOfOthers, HeldDisjoint, Held
  <2> QED
    BY <2>1, <2>2, <2>3 DEF Inv
<1>2. Inv /\ [Next]_vars => Inv'
  BY InvStep
<1> QED
  BY <1>1, <1>2, PTL DEF Spec

(* Exclusive booking, ProtectedDisjoint, in every instance: places that were *)
(* checked under the lock by the booking itself never overlap another live   *)
(* booking's, whatever else is edited, split, cancelled, deleted, imported   *)
(* or lost meanwhile.                                                        *)
THEOREM Exclusivity == Spec => []ProtectedDisjoint
<1>1. Inv => ProtectedDisjoint
  BY DEF Inv, HeldDisjoint, Held, ProtectedDisjoint
<1> QED
  BY <1>1, Invariance, PTL

(* The tables implement the abstract ledger, ImplementsLedger: a commit       *)
(* changes the holding of one booking, in one step, to places that no other   *)
(* booking's holding overlaps.                                                *)
THEOREM LedgerImplemented == Spec => ImplementsLedger
<1>1. Init => Ledger!Init
  BY DEF Init, Ledger!Init, Held
<1>2. Inv /\ [Next]_vars => [Ledger!Next]_([r \in Reservations |-> Held(r)])
  BY InvStep DEF LedgerMove
<1> QED
  BY <1>1, <1>2, Invariance, PTL DEF Spec, ImplementsLedger, Ledger!Spec

-----------------------------------------------------------------------------
(* What a step may never do to a row *)

(* An identifier that names no reservation has an empty row. *)
Unused == \A r \in Reservations : ~Exists(r) => row[r] = NoRow

(* What a step does to the row r: nothing, insert it, or change it -- and   *)
(* then a request changes only Kuutar's, and nothing of a deleted one but   *)
(* its rule.                                                                *)
RowStep(r) ==
  \/ row'[r] = row[r] /\ places'[r] = places[r]
  \/ ~Exists(r) /\ Exists(r)'
  \/ /\ Exists(r) /\ Exists(r)'
     /\ row[r].source = "kuutar" \/ req' = req
     /\ row[r].deleted => /\ row'[r].deleted
                          /\ row'[r].status = row[r].status
                          /\ row'[r].cancelledBy = row[r].cancelledBy

(* A request changes nothing of an Outlook row, and of a deleted one only its rule. *)
LEMMA RequestRowStep ==
  ASSUME Inv, NEW q \in Requests, Continue(q), NEW r \in Reservations
  PROVE  RowStep(r)
<1> DEFINE d == req[q]
<1>1. row[r] \in Rows
  BY DEF Inv, TypeOK
<1>2. CASE UNCHANGED <<row, places>>
  BY <1>2 DEF RowStep
<1>3. ASSUME NEW new \in Reservations, CreateCommit(q, new) PROVE RowStep(r)
  <2>1. ~Exists(new) /\ d.draft.owner # None
    BY <1>3 DEF CreateCommit, ReadyToWrite, Inv, RequestRows, RequestRow
  <2> QED
    BY <1>3, <2>1 DEF CreateCommit, RowStep, Exists, Inv, TypeOK
<1>4. CASE UpdateCommit(q)
  <2>1. row[d.res].source = "kuutar" /\ Live(d.res)
    BY <1>4 DEF UpdateCommit, ReadyToWrite, Inv, RequestRows, RequestRow
  <2>2. CASE r = d.res
    <3>1. row'[r] = Edited(row[r], d)
      BY <1>4, <2>2 DEF UpdateCommit, Inv, TypeOK
    <3>2. row'[r].owner = row[r].owner
      BY <1>1, <3>1 DEF Edited, Rows
    <3> QED
      BY <2>1, <2>2, <3>2 DEF RowStep, Live, Exists
  <2>3. CASE r # d.res
    BY <1>4, <2>3 DEF UpdateCommit, RowStep, Inv, TypeOK
  <2> QED
    BY <2>2, <2>3
<1>5. CASE CancelCommit(q)
  <2>1. row[d.res].source = "kuutar"
    BY <1>5 DEF CancelCommit, Inv, RequestRows, RequestRow
  <2>2. CASE Cancellable(r) /\ r = d.res
    <3>1. row'[r].owner = row[r].owner
      BY <1>1, <1>5, <2>2 DEF CancelCommit, Rows, Inv, TypeOK
    <3> QED
      BY <2>1, <2>2, <3>1 DEF RowStep, Cancellable, Live, Exists
  <2>3. CASE r # d.res
    BY <1>5, <2>3 DEF CancelCommit, RowStep, Inv, TypeOK
  <2>4. CASE ~Cancellable(r) /\ r = d.res
    BY <1>5, <2>4 DEF CancelCommit, RowStep
  <2> QED
    BY <2>2, <2>3, <2>4
<1>6. ASSUME NEW new \in Reservations, SplitCommit(q, new) PROVE RowStep(r)
  <2>1. /\ row[d.res].source = "kuutar" /\ Exists(d.res)
        /\ d.draft.owner # None /\ ~Exists(new)
    BY <1>6 DEF SplitCommit, Inv, RequestRows, RequestRow
  <2>2. CASE r = d.res
    <3>1. row'[r] = [row[r] EXCEPT !.recurring = d.rule]
      BY <1>6, <2>1, <2>2 DEF SplitCommit, Inv, TypeOK
    <3>2. /\ row'[r].owner = row[r].owner /\ row'[r].deleted = row[r].deleted
          /\ row'[r].status = row[r].status /\ row'[r].cancelledBy = row[r].cancelledBy
      BY <1>1, <3>1 DEF Rows
    <3> QED
      BY <2>1, <2>2, <3>2 DEF RowStep, Exists
  <2>3. CASE r = new /\ r # d.res
    <3>1. row'[r] = d.draft
      BY <1>6, <2>3 DEF SplitCommit, Inv, TypeOK
    <3> QED
      BY <2>1, <2>3, <3>1 DEF RowStep, Exists
  <2>4. CASE r \notin {d.res, new}
    BY <1>6, <2>4 DEF SplitCommit, RowStep, Inv, TypeOK
  <2> QED
    BY <2>2, <2>3, <2>4
<1>7. CASE DeleteCommit(q)
  <2>1. row[d.res].source = "kuutar" /\ Exists(d.res)
    BY <1>7 DEF DeleteCommit, Inv, RequestRows, RequestRow
  <2>2. CASE r = d.res
    <3>1. row'[r] = [row[r] EXCEPT !.deleted = TRUE]
      BY <1>7, <2>2 DEF DeleteCommit, Inv, TypeOK
    <3>2. /\ row'[r].owner = row[r].owner /\ row'[r].deleted
          /\ row'[r].status = row[r].status /\ row'[r].cancelledBy = row[r].cancelledBy
      BY <1>1, <3>1 DEF Rows
    <3> QED
      BY <2>1, <2>2, <3>2 DEF RowStep, Exists
  <2>3. CASE r # d.res
    BY <1>7, <2>3 DEF DeleteCommit, RowStep, Inv, TypeOK
  <2> QED
    BY <2>2, <2>3
<1> QED
  BY <1>2, <1>3, <1>4, <1>5, <1>6, <1>7
     DEF Continue, BlockCheck, UpdateNotFound, SplitCopy, SplitMove, database

(* What the other writers may do to a row that exists. *)
LEMMA ElsewhereRowStep ==
  ASSUME Inv, Elsewhere, NEW r \in Reservations
  PROVE  RowStep(r)
<1>1. row[r] \in Rows
  BY DEF Inv, TypeOK
<1>2. ASSUME NEW a \in Admins, NEW s \in Reservations, NEW o \in Accounts, NEW ps, NEW rule,
             NEW st, BatchImport(a, s, o, ps, rule, st)
      PROVE  RowStep(r)
  <2>1. NewRow(o, "kuutar", st, rule).owner # None
    BY ConstantsAssumption DEF NewRow, NoRow
  <2> QED
    BY <1>2, <2>1 DEF BatchImport, RowStep, Exists, Inv, TypeOK
<1>3. ASSUME NEW s \in Reservations, NEW o \in Accounts, NEW ps, NEW rule,
             OutlookRequest(s, o, ps, rule)
      PROVE  RowStep(r)
  <2>1. CASE r = s
    <3>1. row'[r].owner = o /\ o # None
      BY <1>1, <1>3, <2>1, ConstantsAssumption DEF OutlookRequest, Rows, Inv, TypeOK
    <3> QED
      BY <1>3, <2>1, <3>1 DEF OutlookRequest, RowStep, Exists, Live
  <2>2. CASE r # s
    BY <1>3, <2>2 DEF OutlookRequest, RowStep, Inv, TypeOK
  <2> QED
    BY <2>1, <2>2
<1>4. ASSUME NEW s \in Reservations, OutlookCancel(s) PROVE RowStep(r)
  <2>1. CASE r = s
    <3>1. row'[r].owner = row[r].owner
      BY <1>1, <1>4, <2>1 DEF OutlookCancel, Rows, Inv, TypeOK
    <3> QED
      BY <1>4, <2>1, <3>1 DEF OutlookCancel, RowStep, Exists, Live
  <2>2. CASE r # s
    BY <1>4, <2>2 DEF OutlookCancel, RowStep, Inv, TypeOK
  <2> QED
    BY <2>1, <2>2
<1>5. CASE UNCHANGED <<row, places>>
  BY <1>5 DEF RowStep
<1> QED
  BY <1>2, <1>3, <1>4, <1>5 DEF Elsewhere, EditResource, EditBlock

(* No step changes a deleted row. *)
LEMMA AnyRowStep ==
  ASSUME Inv, [Next]_vars, NEW r \in Reservations
  PROVE  RowStep(r)
<1>1. ASSUME NEW q \in Requests, Arrive(q) PROVE RowStep(r)
  BY <1>1, Arrival DEF Inv, Start, database, RowStep
<1>2. ASSUME NEW q \in Requests, Abort(q) PROVE RowStep(r)
  BY <1>2 DEF Abort, database, RowStep
<1>3. CASE UNCHANGED vars
  BY <1>3 DEF vars, RowStep
<1> QED
  BY <1>1, <1>2, <1>3, RequestRowStep, ElsewhereRowStep DEF Next

(* Unused: a row that does not exist is unmarked and has no occurrences. *)
THEOREM UnusedRowsAreEmpty == Spec => []Unused
<1>1. Init => Unused
  BY DEF Init, Unused
<1>2. Inv /\ Unused /\ [Next]_vars => Unused'
  BY AnyRowStep DEF RowStep, Unused, Exists
<1> QED
  BY <1>1, <1>2, Invariance, PTL DEF Spec

(* Soft deletion is final, DeletedIsFinal: of all the requests that may have  *)
(* read the reservation before it was deleted, none reopens or cancels it.    *)
THEOREM DeletionIsFinal == Spec => DeletedIsFinal
<1>1. Inv /\ Unused /\ [Next]_vars =>
        [\A r \in Reservations : row[r].deleted =>
            /\ row'[r].deleted
            /\ row'[r].status = row[r].status
            /\ row'[r].cancelledBy = row[r].cancelledBy]_vars
  BY AnyRowStep DEF RowStep, Unused, NoRow
<1> QED
  BY <1>1, Invariance, UnusedRowsAreEmpty, PTL DEF Spec, DeletedIsFinal

(* No request changes what was imported from Outlook, OutlookOwnsItsRows. *)
THEOREM OutlookRowsAreOutlooks == Spec => OutlookOwnsItsRows
<1>1. Inv /\ Unused /\ [Next]_vars =>
        [req' # req =>
           \A r \in Reservations : row[r].source = "outlook" =>
             row'[r] = row[r] /\ places'[r] = places[r]]_vars
  BY AnyRowStep DEF RowStep, Unused, NoRow
<1> QED
  BY <1>1, Invariance, UnusedRowsAreEmpty, PTL DEF Spec, OutlookOwnsItsRows

-----------------------------------------------------------------------------
(* What a reservation goes through: cancelled, reopened, split. *)

(* Cancelling and reopening *)

(* The cancellation columns go with the cancelled status. *)
Coherent(w) == w.source = "kuutar" /\ w.status # "cancelled" => w.cancelledBy = None

(* So they do in the row a request is about to insert, and an edit was      *)
(* either begun on a row that was not cancelled, or by an admin.            *)
Careful(d) ==
  /\ Coherent(d.draft)
  /\ d.op = "update" => d.actor \in Admins \/ d.seen # "cancelled"

CancellationInv ==
  /\ \A r \in Reservations : Coherent(row[r])
  /\ \A q \in Requests : Careful(req[q])

LEMMA IdleIsCareful == Careful(Idle) /\ Coherent(NoRow)
  BY DEF Careful, Idle, Coherent, NoRow

(* The rows after an edit, a split and an import are coherent. *)
LEMMA CoherentRows ==
  /\ \A o, src, st, rule : Coherent(NewRow(o, src, st, rule))
  /\ \A w \in Rows, d \in RequestStates : Coherent(w) => Coherent(Edited(w, d))
  /\ \A w \in Rows, rule \in BOOLEAN :
       Coherent(w) => Coherent([w EXCEPT !.recurring = rule])
<1>1. \A o, src, st, rule : Coherent(NewRow(o, src, st, rule))
  BY DEF Coherent, NewRow, NoRow
<1>2. ASSUME NEW w \in Rows, NEW d \in RequestStates, Coherent(w)
      PROVE  Coherent(Edited(w, d))
  BY <1>2 DEF Coherent, Edited, Rows, RequestStates, Statuses
<1>3. ASSUME NEW w \in Rows, NEW rule \in BOOLEAN, Coherent(w)
      PROVE  Coherent([w EXCEPT !.recurring = rule])
  BY <1>3 DEF Coherent, Rows
<1> QED
  BY <1>1, <1>2, <1>3

(* One slot changes, to a careful request, and the rows stay coherent. *)
LEMMA SlotStep ==
  ASSUME Inv, CancellationInv, NEW q \in Requests, NEW d, Careful(d),
         req' = [req EXCEPT ![q] = d], \A r \in Reservations : Coherent(row'[r])
  PROVE  CancellationInv'
<1>1. \A q2 \in Requests : Careful(req'[q2])
  BY DEF CancellationInv, Inv, TypeOK
<1> QED
  BY <1>1 DEF CancellationInv, Careful, Coherent

LEMMA ArriveCancellationInv ==
  ASSUME Inv, CancellationInv, NEW q \in Requests, Arrive(q)
  PROVE  CancellationInv'
<1>1. PICK d : WellFormed(d) /\ Start(q, d)
  BY Arrival DEF Inv
<1> DEFINE e == [d EXCEPT !.pc = "validated"]
<1>2. e.draft = d.draft /\ e.op = d.op /\ e.actor = d.actor /\ e.seen = d.seen
  BY <1>1 DEF WellFormed, RequestStates
<1>3. req' = [req EXCEPT ![q] = e] /\ row' = row
  BY <1>1 DEF Start, database
<1> HIDE DEF e
<1>4. Careful(e)
  BY <1>1, <1>2 DEF WellFormed, Careful, Coherent
<1> QED
  BY <1>3, <1>4, SlotStep DEF CancellationInv

LEMMA ContinueCancellationInv ==
  ASSUME Inv, CancellationInv, NEW q \in Requests, Continue(q)
  PROVE  CancellationInv'
<1> DEFINE d == req[q]
<1>1. /\ d \in RequestStates /\ Careful(d) /\ d.rule \in BOOLEAN /\ d.draft \in Rows
      /\ \A r \in Reservations : Coherent(row[r]) /\ row[r] \in Rows
      /\ row \in [Reservations -> Rows] /\ req \in [Requests -> RequestStates]
  BY DEF CancellationInv, Inv, TypeOK, RequestStates
<1>2. CASE BlockCheck(q)
  <2> DEFINE e == [d EXCEPT !.pc = "checked", !.locks = BlocksOnlyOf(d.places)]
  <2>1. e.draft = d.draft /\ e.op = d.op /\ e.actor = d.actor /\ e.seen = d.seen
    BY <1>1 DEF RequestStates
  <2>2. (req' = [req EXCEPT ![q] = e] \/ req' = [req EXCEPT ![q] = Idle]) /\ row' = row
    BY <1>1, <1>2 DEF BlockCheck, database
  <2> HIDE DEF e
  <2>3. Careful(e)
    BY <1>1, <2>1 DEF Careful
  <2> QED
    BY <1>1, <2>2, <2>3, IdleIsCareful, SlotStep
<1>3. ASSUME NEW new \in Reservations, CreateCommit(q, new) PROVE CancellationInv'
  <2>1. \A r \in Reservations : Coherent(row'[r])
    BY <1>1, <1>3 DEF CreateCommit, Careful
  <2> QED
    BY <1>3, <2>1, IdleIsCareful, SlotStep DEF CreateCommit
<1>4. CASE UpdateCommit(q)
  <2>1. d.res \in Reservations
    BY <1>4 DEF UpdateCommit, ReadyToWrite, Inv, Named
  <2>2. Coherent(Edited(row[d.res], d))
    BY <1>1, <2>1, CoherentRows
  <2>3. row' = [row EXCEPT ![d.res] = Edited(row[d.res], d)]
    BY <1>1, <1>4, <2>1 DEF UpdateCommit
  <2>4. \A r \in Reservations : Coherent(row'[r])
    BY <1>1, <2>2, <2>3
  <2> QED
    BY <1>4, <2>4, IdleIsCareful, SlotStep DEF UpdateCommit
<1>5. CASE UpdateNotFound(q)
  BY <1>1, <1>5, IdleIsCareful, SlotStep DEF UpdateNotFound, database
<1>6. CASE CancelCommit(q)
  <2>1. ASSUME NEW r \in Reservations PROVE Coherent(row'[r])
    <3>1. row'[r] = row[r] \/ row'[r] = [row[r] EXCEPT !.status = "cancelled",
                                                      !.cancelledBy = d.actor]
      BY <1>1, <1>6 DEF CancelCommit
    <3>2. [row[r] EXCEPT !.status = "cancelled", !.cancelledBy = d.actor].status = "cancelled"
      BY <1>1 DEF Rows
    <3> QED
      BY <1>1, <3>1, <3>2 DEF Coherent
  <2>2. req' = [req EXCEPT ![q] = Idle]
    BY <1>6 DEF CancelCommit
  <2> QED
    BY <2>1, <2>2, IdleIsCareful, SlotStep
<1>7. CASE SplitCopy(q)
  <2>1. d.res \in Reservations /\ row[d.res].source = "kuutar" /\ d.op = "split"
    BY <1>7 DEF SplitCopy, Inv, Named, RequestRows, RequestRow
  <2> DEFINE w == [row[d.res] EXCEPT !.recurring = FALSE, !.source = "kuutar"]
             e == [d EXCEPT !.pc = "copied", !.draft = w]
  <2>2. /\ w.source = "kuutar" /\ w.status = row[d.res].status
        /\ w.cancelledBy = row[d.res].cancelledBy
    BY <1>1, <2>1 DEF Rows
  <2>3. (req' = [req EXCEPT ![q] = e] \/ req' = [req EXCEPT ![q] = Idle]) /\ row' = row
    BY <1>1, <1>7 DEF SplitCopy, database
  <2> HIDE DEF w
  <2>4. Coherent(w)
    BY <1>1, <2>1, <2>2 DEF Coherent
  <2>5. e.draft = w /\ e.op = "split"
    BY <1>1, <2>1 DEF RequestStates
  <2> HIDE DEF e
  <2>6. Careful(e)
    BY <2>4, <2>5 DEF Careful
  <2> QED
    BY <1>1, <2>3, <2>6, IdleIsCareful, SlotStep
<1>8. CASE SplitMove(q)
  <2> DEFINE e == [d EXCEPT !.pc = "moved"]
  <2>1. e.draft = d.draft /\ e.op = d.op /\ e.actor = d.actor /\ e.seen = d.seen
    BY <1>1 DEF RequestStates
  <2>2. (req' = [req EXCEPT ![q] = e] \/ req' = [req EXCEPT ![q] = Idle]) /\ row' = row
    BY <1>1, <1>8 DEF SplitMove, database
  <2> HIDE DEF e
  <2>3. Careful(e)
    BY <1>1, <2>1 DEF Careful
  <2> QED
    BY <1>1, <2>2, <2>3, IdleIsCareful, SlotStep
<1>9. ASSUME NEW new \in Reservations, SplitCommit(q, new) PROVE CancellationInv'
  <2>1. d.res \in Reservations /\ d.res # new
    BY <1>9 DEF SplitCommit, Inv, Named, RequestRows, RequestRow
  <2>2. Coherent([row[d.res] EXCEPT !.recurring = d.rule])
    BY <1>1, <2>1, CoherentRows
  <2>3. row' = [row EXCEPT ![new] = d.draft,
                           ![d.res] = [row[d.res] EXCEPT !.recurring = d.rule]]
    BY <1>1, <1>9, <2>1 DEF SplitCommit
  <2>4. \A r \in Reservations : Coherent(row'[r])
    BY <1>1, <2>1, <2>2, <2>3 DEF Careful
  <2> QED
    BY <1>9, <2>4, IdleIsCareful, SlotStep DEF SplitCommit
<1>10. CASE DeleteCommit(q)
  <2>1. ASSUME NEW r \in Reservations PROVE Coherent(row'[r])
    <3>1. row'[r] = row[r] \/ row'[r] = [row[r] EXCEPT !.deleted = TRUE]
      BY <1>1, <1>10 DEF DeleteCommit
    <3>2. Coherent([row[r] EXCEPT !.deleted = TRUE])
      BY <1>1 DEF Rows, Coherent
    <3> QED
      BY <1>1, <3>1, <3>2
  <2> QED
    BY <1>10, <2>1, IdleIsCareful, SlotStep DEF DeleteCommit
<1> QED
  BY <1>2, <1>3, <1>4, <1>5, <1>6, <1>7, <1>8, <1>9, <1>10 DEF Continue

LEMMA ElsewhereCancellationInv ==
  ASSUME Inv, CancellationInv, Elsewhere
  PROVE  CancellationInv'
<1>1. /\ \A r \in Reservations : Coherent(row[r]) /\ row[r] \in Rows
      /\ row \in [Reservations -> Rows]
  BY DEF CancellationInv, Inv, TypeOK
<1>2. req' = req
  BY DEF Elsewhere, BatchImport, OutlookRequest, OutlookCancel, EditResource, EditBlock
<1>3. ASSUME NEW r \in Reservations PROVE Coherent(row'[r])
  <2>1. ASSUME NEW a \in Admins, NEW s \in Reservations, NEW o \in Accounts, NEW ps, NEW rule,
               NEW st, BatchImport(a, s, o, ps, rule, st)
        PROVE  Coherent(row'[r])
    BY <1>1, <2>1, CoherentRows DEF BatchImport
  <2>2. ASSUME NEW s \in Reservations, NEW o \in Accounts, NEW ps, NEW rule \in RulePayloads,
               OutlookRequest(s, o, ps, rule)
        PROVE  Coherent(row'[r])
    <3>1. CASE r = s
      <4>1. row'[r].source = "outlook"
        BY <1>1, <2>2, <3>1 DEF OutlookRequest, Rows
      <4> QED
        BY <4>1 DEF Coherent
    <3>2. CASE r # s
      BY <1>1, <2>2, <3>2 DEF OutlookRequest
    <3> QED
      BY <3>1, <3>2
  <2>3. ASSUME NEW s \in Reservations, OutlookCancel(s) PROVE Coherent(row'[r])
    <3>1. row'[r] = row[r] \/ row'[r] = [row[r] EXCEPT !.status = "cancelled"]
      BY <1>1, <2>3 DEF OutlookCancel
    <3>2. [row[r] EXCEPT !.status = "cancelled"].status = "cancelled"
      BY <1>1 DEF Rows
    <3> QED
      BY <1>1, <3>1, <3>2 DEF Coherent
  <2>4. CASE row' = row
    BY <1>1, <2>4
  <2> QED
    BY <2>1, <2>2, <2>3, <2>4 DEF Elsewhere, EditResource, EditBlock
<1> QED
  BY <1>2, <1>3 DEF CancellationInv, Careful, Coherent

LEMMA CancelStep ==
  ASSUME Inv, CancellationInv, [Next]_vars
  PROVE  CancellationInv'
<1>1. ASSUME NEW q \in Requests, Abort(q) PROVE CancellationInv'
  BY <1>1, IdleIsCareful, SlotStep DEF Abort, database, CancellationInv
<1>2. CASE UNCHANGED vars
  BY <1>2 DEF vars, CancellationInv, Careful, Coherent
<1> QED
  BY <1>1, <1>2, ArriveCancellationInv, ContinueCancellationInv, ElsewhereCancellationInv DEF Next

(* The cancellation columns stay with the status, whatever order requests   *)
(* cancel, edit, reopen and split in.                                       *)
THEOREM CancellationInvariance == Spec => []CancellationInv
<1>1. Init => CancellationInv
  BY IdleIsCareful DEF Init, CancellationInv
<1>2. Inv /\ CancellationInv /\ [Next]_vars => CancellationInv'
  BY CancelStep
<1> QED
  BY <1>1, <1>2, Invariance, PTL DEF Spec

(* A Kuutar reservation that is not cancelled names no canceller.           *)
THEOREM NoCancellerWhenActive == Spec => []ActiveHasNoCanceller
<1>1. CancellationInv => ActiveHasNoCanceller
  BY DEF CancellationInv, Coherent, ActiveHasNoCanceller, Active
<1> QED
  BY <1>1, CancellationInvariance, PTL

(* What a step does to status and canceller: nothing; or the row is new, or  *)
(* Outlook's and keeps its canceller, or is cancelled now, or a careful edit *)
(* writes it.                                                                *)
StatusStep(r) ==
  \/ row'[r].status = row[r].status /\ row'[r].cancelledBy = row[r].cancelledBy
  \/ ~Exists(r)
  \/ row[r].source = "outlook" /\ row'[r].cancelledBy = row[r].cancelledBy
  \/ row[r].source = "kuutar" /\ row[r].status # "cancelled" /\ row'[r].status = "cancelled"
  \/ /\ row'[r].cancelledBy \in {row[r].cancelledBy, None}
     /\ \E q \in Requests : WritesTo(q, r) /\ Careful(req[q])

LEMMA RequestStatusStep ==
  ASSUME Inv, CancellationInv, NEW q \in Requests, Continue(q), NEW r \in Reservations
  PROVE  StatusStep(r)
<1> DEFINE d == req[q]
<1>1. /\ row[r] \in Rows /\ row \in [Reservations -> Rows]
      /\ req \in [Requests -> RequestStates] /\ Careful(d)
  BY DEF Inv, TypeOK, CancellationInv
<1>2. CASE row' = row
  BY <1>2 DEF StatusStep
<1>3. ASSUME NEW new \in Reservations, CreateCommit(q, new) PROVE StatusStep(r)
  BY <1>1, <1>3 DEF CreateCommit, StatusStep
<1>4. CASE UpdateCommit(q)
  <2>1. CASE r = d.res
    <3>1. row'[r] = Edited(row[r], d)
      BY <1>1, <1>4, <2>1 DEF UpdateCommit
    <3>2. row'[r].cancelledBy \in {row[r].cancelledBy, None}
      BY <1>1, <3>1 DEF Edited, Rows
    <3>3. WritesTo(q, r)
      BY <1>1, <1>4, <2>1 DEF UpdateCommit, ReadyToWrite, WritesTo, Idle
    <3> QED
      BY <1>1, <3>2, <3>3 DEF StatusStep
  <2>2. CASE r # d.res
    BY <1>1, <1>4, <2>2 DEF UpdateCommit, StatusStep
  <2> QED
    BY <2>1, <2>2
<1>5. CASE CancelCommit(q)
  <2>1. row[d.res].source = "kuutar"
    BY <1>5 DEF CancelCommit, Inv, RequestRows, RequestRow
  <2>2. CASE Cancellable(r) /\ r = d.res
    <3>1. row'[r] = [row[r] EXCEPT !.status = "cancelled", !.cancelledBy = d.actor]
      BY <1>1, <1>5, <2>2 DEF CancelCommit
    <3>2. row'[r].status = "cancelled"
      BY <1>1, <3>1 DEF Rows
    <3> QED
      BY <2>1, <2>2, <3>2 DEF StatusStep, Cancellable
  <2>3. CASE r # d.res
    BY <1>1, <1>5, <2>3 DEF CancelCommit, StatusStep
  <2>4. CASE ~Cancellable(r) /\ r = d.res
    BY <1>5, <2>4 DEF CancelCommit, StatusStep
  <2> QED
    BY <2>2, <2>3, <2>4
<1>6. ASSUME NEW new \in Reservations, SplitCommit(q, new) PROVE StatusStep(r)
  <2>1. CASE r = new
    BY <1>6, <2>1 DEF SplitCommit, StatusStep
  <2>2. CASE r # new
    <3>1. row'[r] = row[r] \/ row'[r] = [row[r] EXCEPT !.recurring = d.rule]
      BY <1>1, <1>6, <2>2 DEF SplitCommit
    <3>2. row'[r].status = row[r].status /\ row'[r].cancelledBy = row[r].cancelledBy
      BY <1>1, <3>1 DEF Rows
    <3> QED
      BY <3>2 DEF StatusStep
  <2> QED
    BY <2>1, <2>2
<1>7. CASE DeleteCommit(q)
  <2>1. row'[r] = row[r] \/ row'[r] = [row[r] EXCEPT !.deleted = TRUE]
    BY <1>1, <1>7 DEF DeleteCommit
  <2>2. row'[r].status = row[r].status /\ row'[r].cancelledBy = row[r].cancelledBy
    BY <1>1, <2>1 DEF Rows
  <2> QED
    BY <2>2 DEF StatusStep
<1> QED
  BY <1>2, <1>3, <1>4, <1>5, <1>6, <1>7
     DEF Continue, BlockCheck, UpdateNotFound, SplitCopy, SplitMove, database

LEMMA ElsewhereStatusStep ==
  ASSUME Inv, Elsewhere, NEW r \in Reservations
  PROVE  StatusStep(r)
<1>1. row[r] \in Rows /\ row \in [Reservations -> Rows]
  BY DEF Inv, TypeOK
<1>2. ASSUME NEW a \in Admins, NEW s \in Reservations, NEW o \in Accounts, NEW ps, NEW rule,
             NEW st, BatchImport(a, s, o, ps, rule, st)
      PROVE  StatusStep(r)
  BY <1>1, <1>2 DEF BatchImport, StatusStep
<1>3. ASSUME NEW s \in Reservations, NEW o \in Accounts, NEW ps, NEW rule,
             OutlookRequest(s, o, ps, rule)
      PROVE  StatusStep(r)
  <2>1. CASE r = s
    <3>1. row'[r].cancelledBy = row[r].cancelledBy
      BY <1>1, <1>3, <2>1 DEF OutlookRequest, Rows
    <3> QED
      BY <1>3, <2>1, <3>1 DEF OutlookRequest, StatusStep
  <2>2. CASE r # s
    BY <1>1, <1>3, <2>2 DEF OutlookRequest, StatusStep
  <2> QED
    BY <2>1, <2>2
<1>4. ASSUME NEW s \in Reservations, OutlookCancel(s) PROVE StatusStep(r)
  <2>1. CASE r = s
    <3>1. row'[r].cancelledBy = row[r].cancelledBy
      BY <1>1, <1>4, <2>1 DEF OutlookCancel, Rows
    <3> QED
      BY <1>4, <2>1, <3>1 DEF OutlookCancel, StatusStep
  <2>2. CASE r # s
    BY <1>1, <1>4, <2>2 DEF OutlookCancel, StatusStep
  <2> QED
    BY <2>1, <2>2
<1>5. CASE row' = row
  BY <1>5 DEF StatusStep
<1> QED
  BY <1>2, <1>3, <1>4, <1>5 DEF Elsewhere, EditResource, EditBlock

LEMMA AnyStatusStep ==
  ASSUME Inv, CancellationInv, [Next]_vars, NEW r \in Reservations
  PROVE  StatusStep(r)
<1>1. ASSUME NEW q \in Requests, Arrive(q) PROVE StatusStep(r)
  BY <1>1, Arrival DEF Inv, Start, database, StatusStep
<1>2. ASSUME NEW q \in Requests, Abort(q) PROVE StatusStep(r)
  BY <1>2 DEF Abort, database, StatusStep
<1>3. CASE UNCHANGED vars
  BY <1>3 DEF vars, StatusStep
<1> QED
  BY <1>1, <1>2, <1>3, RequestStatusStep, ElsewhereStatusStep DEF Next

(* Of concurrent cancellations one wins, CancellerIsKept: no request        *)
(* overwrites the canceller another has recorded.                           *)
THEOREM FirstCancellerStays == Spec => CancellerIsKept
<1>1. Inv /\ Unused /\ CancellationInv /\ [Next]_vars =>
        [\A r \in Reservations : row[r].cancelledBy # None =>
           row'[r].cancelledBy \in {row[r].cancelledBy, None}]_vars
  <2> SUFFICES ASSUME Inv, Unused, CancellationInv, [Next]_vars, NEW r \in Reservations,
                      row[r].cancelledBy # None
               PROVE  row'[r].cancelledBy \in {row[r].cancelledBy, None}
    OBVIOUS
  <2>1. StatusStep(r)
    BY AnyStatusStep
  <2>2. Exists(r) /\ Coherent(row[r])
    BY DEF Unused, NoRow, CancellationInv
  <2> QED
    BY <2>1, <2>2 DEF StatusStep, Coherent
<1> QED
  BY <1>1, Invariance, UnusedRowsAreEmpty, CancellationInvariance, PTL DEF Spec, CancellerIsKept

(* A cancelled reservation comes back only through an admin's edit or one   *)
(* begun before the cancellation, ReopenedByAdminOrStaleEdit.               *)
THEOREM OnlyEditsReopen == Spec => ReopenedByAdminOrStaleEdit
<1>1. Inv /\ CancellationInv /\ [Next]_vars =>
        [\A r \in Reservations : Reopens(r) =>
           \E q \in Requests :
             WritesTo(q, r) /\ (req[q].actor \in Admins \/ req[q].seen # "cancelled")]_vars
  <2> SUFFICES ASSUME Inv, CancellationInv, [Next]_vars, NEW r \in Reservations, Reopens(r)
               PROVE  \E q \in Requests :
                        WritesTo(q, r) /\ (req[q].actor \in Admins \/ req[q].seen # "cancelled")
    OBVIOUS
  <2>1. StatusStep(r)
    BY AnyStatusStep
  <2>2. \E q \in Requests : WritesTo(q, r) /\ Careful(req[q])
    BY <2>1 DEF StatusStep, Reopens
  <2> QED
    BY <2>2 DEF Careful, WritesTo
<1> QED
  BY <1>1, Invariance, CancellationInvariance, PTL DEF Spec, ReopenedByAdminOrStaleEdit

-----------------------------------------------------------------------------
(* Splitting *)

(* What a split has moved is still the reservation's until it commits, and  *)
(* no other split has moved it too.                                         *)
Splitting(d) ==
  /\ d.op = "split" => d.places # {}
  /\ d.pc = "moved" => d.op = "split" /\ d.places \subseteq places[d.res]

Apart(d, d2) ==
  d.pc = "moved" /\ d2.pc = "moved" /\ d.res = d2.res => d.places \cap d2.places = {}

SplitInv ==
  /\ \A q \in Requests : Splitting(req[q])
  /\ \A q, q2 \in Requests : q # q2 => Apart(req[q], req[q2])

(* One slot changes and no occurrence does. *)
LEMMA SplitSlotStep ==
  ASSUME Inv, SplitInv, NEW q \in Requests, NEW d, req' = [req EXCEPT ![q] = d],
         places' = places, Splitting(d),
         d.pc = "moved" => \A q2 \in Requests \ {q} : Apart(d, req[q2])
  PROVE  SplitInv'
<1>1. req'[q] = d /\ \A q2 \in Requests \ {q} : req'[q2] = req[q2]
  BY DEF Inv, TypeOK
<1>2. \A q2 \in Requests : Splitting(req[q2])'
  BY <1>1 DEF SplitInv, Splitting
<1>3. \A q2, q3 \in Requests : q2 # q3 => Apart(req'[q2], req'[q3])
  BY <1>1 DEF SplitInv, Apart
<1> QED
  BY <1>2, <1>3 DEF SplitInv, Apart

(* One slot comes to rest, and no split loses what it has moved. *)
LEMMA SplitTableStep ==
  ASSUME Inv, SplitInv, NEW q \in Requests, req' = [req EXCEPT ![q] = Idle],
         \A q2 \in Requests \ {q} :
            req[q2].pc = "moved" => req[q2].places \subseteq places'[req[q2].res]
  PROVE  SplitInv'
<1>1. req'[q] = Idle /\ \A q2 \in Requests \ {q} : req'[q2] = req[q2]
  BY DEF Inv, TypeOK
<1>2. ASSUME NEW q2 \in Requests
      PROVE  Splitting(req[q2])'
  BY <1>1 DEF SplitInv, Splitting, Idle
<1>3. \A q2, q3 \in Requests : q2 # q3 => Apart(req'[q2], req'[q3])
  BY <1>1 DEF SplitInv, Apart, Idle
<1> QED
  BY <1>2, <1>3 DEF SplitInv, Apart

LEMMA IdleSplitsNothing == Splitting(Idle) /\ Idle.pc = "idle"
  BY DEF Splitting, Idle

LEMMA SplitStep ==
  ASSUME Inv, SplitInv, [Next]_vars
  PROVE  SplitInv'
<1>0. /\ places \in [Reservations -> SUBSET Places]
      /\ req \in [Requests -> RequestStates]
      /\ \A q \in Requests : req[q] \in RequestStates
  BY DEF Inv, TypeOK
<1>1. ASSUME NEW q \in Requests, req[q].pc = "moved"
      PROVE  /\ req[q].res \in Reservations /\ Exists(req[q].res)
             /\ row[req[q].res].source = "kuutar"
             /\ req[q].places # {} /\ req[q].places \subseteq places[req[q].res]
  BY <1>1 DEF SplitInv, Splitting, Inv, Named, RequestRows, RequestRow
<1>2. ASSUME NEW q \in Requests, Arrive(q) PROVE SplitInv'
  <2>1. PICK d : WellFormed(d) /\ Start(q, d)
    BY <1>2, Arrival DEF Inv
  <2> DEFINE e == [d EXCEPT !.pc = "validated"]
  <2>2. e.pc = "validated" /\ e.op = d.op /\ e.places = d.places
    BY <2>1 DEF WellFormed, RequestStates
  <2>3. req' = [req EXCEPT ![q] = e] /\ places' = places
    BY <2>1 DEF Start, database
  <2> HIDE DEF e
  <2>4. Splitting(e)
    BY <2>1, <2>2 DEF WellFormed, Splitting
  <2> QED
    BY <2>2, <2>3, <2>4, SplitSlotStep
<1>3. ASSUME NEW q \in Requests, Continue(q) PROVE SplitInv'
  <2> DEFINE d == req[q]
  <2>0. d \in RequestStates /\ Splitting(d)
    BY <1>0 DEF SplitInv
  <2>1. CASE BlockCheck(q)
    <3> DEFINE e == [d EXCEPT !.pc = "checked", !.locks = BlocksOnlyOf(d.places)]
    <3>1. e.pc = "checked" /\ e.op = d.op /\ e.places = d.places
      BY <2>0 DEF RequestStates
    <3>2. (req' = [req EXCEPT ![q] = e] \/ req' = [req EXCEPT ![q] = Idle]) /\ places' = places
      BY <1>0, <2>1 DEF BlockCheck, database
    <3> HIDE DEF e
    <3>3. Splitting(e)
      BY <2>0, <3>1 DEF Splitting
    <3> QED
      BY <3>1, <3>2, <3>3, IdleSplitsNothing, SplitSlotStep
  <2>2. ASSUME NEW new \in Reservations, CreateCommit(q, new) PROVE SplitInv'
    BY <1>0, <1>1, <2>2, SplitTableStep DEF CreateCommit
  <2>3. CASE UpdateCommit(q)
    <3>1. ASSUME NEW q2 \in Requests, req[q2].pc = "moved"
          PROVE  req[q2].places \subseteq places'[req[q2].res]
      BY <1>0, <1>1, <2>3, <3>1 DEF UpdateCommit, NotMoving
    <3> QED
      BY <2>3, <3>1, SplitTableStep DEF UpdateCommit
  <2>4. CASE UpdateNotFound(q)
    BY <2>4, IdleSplitsNothing, SplitSlotStep DEF UpdateNotFound, database
  <2>5. CASE CancelCommit(q)
    <3>1. req' = [req EXCEPT ![q] = Idle] /\ places' = places
      BY <2>5 DEF CancelCommit
    <3> QED
      BY <3>1, IdleSplitsNothing, SplitSlotStep
  <2>6. CASE SplitCopy(q)
    <3> DEFINE w == [row[d.res] EXCEPT !.recurring = FALSE, !.source = "kuutar"]
               e == [d EXCEPT !.pc = "copied", !.draft = w]
    <3>1. e.pc = "copied" /\ e.op = d.op /\ e.places = d.places
      BY <2>0 DEF RequestStates
    <3>2. (req' = [req EXCEPT ![q] = e] \/ req' = [req EXCEPT ![q] = Idle]) /\ places' = places
      BY <1>0, <2>6 DEF SplitCopy, database
    <3> HIDE DEF e
    <3>3. Splitting(e)
      BY <2>0, <3>1 DEF Splitting
    <3> QED
      BY <3>1, <3>2, <3>3, IdleSplitsNothing, SplitSlotStep
  <2>7. CASE SplitMove(q)
    <3> DEFINE e == [d EXCEPT !.pc = "moved"]
    <3>1. e.pc = "moved" /\ e.op = d.op /\ e.places = d.places /\ e.res = d.res
      BY <2>0 DEF RequestStates
    <3>2. /\ places' = places /\ d.op = "split"
          /\ \/ req' = [req EXCEPT ![q] = Idle]
             \/ req' = [req EXCEPT ![q] = e] /\ d.places \subseteq places[d.res]
      BY <1>0, <2>7 DEF SplitMove, database
    <3> HIDE DEF e
    <3>3. \A q2 \in Requests \ {q} : Apart(e, req[q2])
      BY <2>7, <3>1 DEF SplitMove, NotMoving, Apart
    <3>4. d.places \subseteq places[d.res] => Splitting(e)
      BY <2>0, <3>1, <3>2 DEF Splitting
    <3> QED
      BY <3>1, <3>2, <3>3, <3>4, IdleSplitsNothing, SplitSlotStep
  <2>8. ASSUME NEW new \in Reservations, SplitCommit(q, new) PROVE SplitInv'
    <3>1. ASSUME NEW q2 \in Requests \ {q}, req[q2].pc = "moved"
          PROVE  req[q2].places \subseteq places'[req[q2].res]
      <4>1. Apart(req[q2], d) /\ d.pc = "moved" /\ req[q2].res # new /\ d.res # new
        BY <1>1, <2>8, <3>1 DEF SplitInv, SplitCommit
      <4>2. \/ places'[req[q2].res] = places[req[q2].res]
            \/ req[q2].res = d.res /\ places'[d.res] = places[d.res] \ d.places
        BY <1>0, <1>1, <2>8, <3>1, <4>1 DEF SplitCommit
      <4> QED
        BY <1>1, <3>1, <4>1, <4>2 DEF Apart
    <3> QED
      BY <2>8, <3>1, SplitTableStep DEF SplitCommit
  <2>9. CASE DeleteCommit(q)
    BY <2>9, IdleSplitsNothing, SplitSlotStep DEF DeleteCommit
  <2> QED
    BY <1>3, <2>1, <2>2, <2>3, <2>4, <2>5, <2>6, <2>7, <2>8, <2>9 DEF Continue
<1>4. ASSUME NEW q \in Requests, Abort(q) PROVE SplitInv'
  BY <1>4, IdleSplitsNothing, SplitSlotStep DEF Abort, database
<1>5. CASE Elsewhere
  <2>1. req' = req
    BY <1>5 DEF Elsewhere, BatchImport, OutlookRequest, OutlookCancel, EditResource, EditBlock
  <2>2. ASSUME NEW q \in Requests, req[q].pc = "moved"
        PROVE  places'[req[q].res] = places[req[q].res]
    <3>1. ASSUME NEW a \in Admins, NEW s \in Reservations, NEW o, NEW ps, NEW rule, NEW st,
                 BatchImport(a, s, o, ps, rule, st)
          PROVE  places'[req[q].res] = places[req[q].res]
      BY <1>0, <1>1, <2>2, <3>1 DEF BatchImport
    <3>2. ASSUME NEW s \in Reservations, NEW o, NEW ps, NEW rule,
                 OutlookRequest(s, o, ps, rule)
          PROVE  places'[req[q].res] = places[req[q].res]
      BY <1>0, <1>1, <2>2, <3>2 DEF OutlookRequest
    <3>3. CASE places' = places
      BY <3>3
    <3> QED
      BY <1>5, <3>1, <3>2, <3>3 DEF Elsewhere, OutlookCancel, EditResource, EditBlock
  <2> QED
    BY <2>1, <2>2 DEF SplitInv, Splitting, Apart
<1>6. CASE UNCHANGED vars
  BY <1>6 DEF vars, SplitInv, Splitting, Apart
<1> QED
  BY <1>2, <1>3, <1>4, <1>5, <1>6 DEF Next

(* Two splits of one reservation have moved different occurrences, and both  *)
(* find them there when they commit.                                         *)
THEOREM SplitInvariance == Spec => []SplitInv
<1>1. Init => SplitInv
  BY IdleSplitsNothing DEF Init, SplitInv, Splitting, Apart
<1>2. Inv /\ SplitInv /\ [Next]_vars => SplitInv'
  BY SplitStep
<1> QED
  BY <1>1, <1>2, Invariance, PTL DEF Spec

(* Occurrences change at the end of a request in "moved" only when it       *)
(* commits.                                                                 *)
LEMMA OnlyCommitEnds ==
  ASSUME Inv, Next, NEW q \in Requests, SplitEnds(q)
  PROVE  \E new \in Reservations : SplitCommit(q, new)
<1>0. req \in [Requests -> RequestStates]
  BY DEF Inv, TypeOK
<1>1. req' # req /\ req'[q] # req[q] /\ places' # places
  BY DEF SplitEnds
<1>2. PICK q2 \in Requests : Continue(q2)
  BY <1>1, Arrival DEF Next, Elsewhere, BatchImport, OutlookRequest, OutlookCancel,
     EditResource, EditBlock, Abort, Start, database, Inv
<1>3. q2 = q
  BY <1>0, <1>1, <1>2 DEF Continue, BlockCheck, CreateCommit, UpdateCommit, UpdateNotFound,
     CancelCommit, SplitCopy, SplitMove, SplitCommit, DeleteCommit
<1> QED
  BY <1>1, <1>2, <1>3 DEF SplitEnds, Continue, BlockCheck, CreateCommit, UpdateCommit,
     ReadyToWrite, UpdateNotFound, CancelCommit, SplitCopy, SplitMove, DeleteCommit, database

(* A split loses and doubles no occurrence, SplitConserves, whatever other  *)
(* requests commit while it runs.                                           *)
THEOREM NothingIsSplitAway == Spec => SplitConserves
<1>1. Inv /\ SplitInv /\ [Next]_vars =>
        [\A q \in Requests : SplitEnds(q) =>
           \E new \in Reservations :
             /\ ~Exists(new)
             /\ places'[new] # {}
             /\ places'[new] \cap places'[req[q].res] = {}
             /\ places'[new] \cup places'[req[q].res] = places[req[q].res]]_vars
  <2> SUFFICES ASSUME Inv, SplitInv, Next, NEW q \in Requests, SplitEnds(q)
               PROVE  \E new \in Reservations :
                        /\ ~Exists(new)
                        /\ places'[new] # {}
                        /\ places'[new] \cap places'[req[q].res] = {}
                        /\ places'[new] \cup places'[req[q].res] = places[req[q].res]
    BY DEF SplitEnds, vars
  <2>1. PICK new \in Reservations : SplitCommit(q, new)
    BY OnlyCommitEnds
  <2>2. /\ req[q].res \in Reservations /\ req[q].res # new /\ ~Exists(new)
        /\ req[q].places # {} /\ req[q].places \subseteq places[req[q].res]
    BY <2>1 DEF SplitCommit, SplitInv, Splitting, Inv, Named, RequestRows, RequestRow
  <2>3. /\ places'[new] = req[q].places
        /\ places'[req[q].res] = places[req[q].res] \ req[q].places
    BY <2>1, <2>2 DEF SplitCommit, Inv, TypeOK
  <2> QED
    BY <2>2, <2>3
<1> QED
  BY <1>1, Invariance, SplitInvariance, PTL DEF Spec, SplitConserves
=============================================================================

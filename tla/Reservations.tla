---------------------------- MODULE Reservations ----------------------------
(***************************************************************************)
(* The reservation handlers of server/src/domains/reservations, run        *)
(* concurrently against one PostgreSQL database.                           *)
(*                                                                         *)
(* A handler is a sequence of autocommitted reads (the checks), then one   *)
(* write transaction.  The server holds no lock of its own and the         *)
(* database runs at READ COMMITTED, so another request may commit between  *)
(* the two.  Each request slot q carries the handler's local state in      *)
(* req[q]; pc is the point it has reached:                                 *)
(*                                                                         *)
(*   idle -> validated -> checked -> idle            create, update        *)
(*   idle -> validated            -> idle            cancel, delete        *)
(*   idle -> validated -> copied -> moved -> idle    split                 *)
(*                                                                         *)
(* "validated": every read of the handler is done.  "checked": the write   *)
(* transaction is open and holds the FOR UPDATE locks of the blocks-only   *)
(* resources.  "copied" and "moved": the two statements of a split that    *)
(* other transactions can interleave with.  A transaction's remaining      *)
(* statements are taken with its commit: they become visible then.         *)
(*                                                                         *)
(* A place is a resource with an interval; a reservation's occurrences are *)
(* the set of its places, known by place and not by an id: an occurrence   *)
(* that an edit replaces by an equal one is the same.                      *)
(*                                                                         *)
(* Titles, texts, contacts, contracts and the mail spawned after a commit  *)
(* are left out.  What the access rules say of a user and a resource or    *)
(* place is given by the constants MayReserve, Open, AutoConfirm and       *)
(* AllowRecurring.                                                         *)
(***************************************************************************)
EXTENDS Naturals, FiniteSets

CONSTANTS
  Users,            \* non-admin accounts
  Admins,           \* admin accounts
  Reservations,     \* row identifiers of the reservations table
  Requests,         \* slots for requests being served at the same time
  Resources,        \* what can be reserved
  Places,           \* records [rsc, from, to]
  OccurrenceLists,  \* the sets of places a payload may carry
  RulePayloads,     \* subset of BOOLEAN: payloads without and with an rrule
  StatusPayloads,   \* the statuses an admin's payload may carry
  MayReserve,       \* <<user, resource>>: visible to the user and open to the user's group
  Open,             \* <<user, place>>: no restriction, duration or date limit forbids it
  AutoConfirm,      \* <<user, resource>>: confirmed without an admin
  AllowRecurring,   \* resources with allow_recurring
  InitialBlocks,    \* places that are occurrences of a reservable block at the start
  InitialBlocksOnly,\* resources that are blocks_only at the start
  Ops,              \* the kinds of requests and events that occur
  None

Accounts == Users \cup Admins
Statuses == {"pending", "confirmed", "cancelled"}
Sources == {"kuutar", "outlook"}

ASSUME ConstantsAssumption ==
  /\ Users \cap Admins = {}
  /\ None \notin Accounts /\ None \notin Reservations
  /\ Places \subseteq [rsc : Resources, from : Nat, to : Nat]
  /\ \A p \in Places : p.from < p.to
  /\ OccurrenceLists \subseteq SUBSET Places
  /\ RulePayloads \subseteq BOOLEAN
  /\ StatusPayloads \subseteq Statuses
  /\ InitialBlocks \subseteq Places
  /\ InitialBlocksOnly \subseteq Resources

VARIABLES
  row,         \* the reservations table
  places,      \* the occurrences table: the places of each reservation
  blocks,      \* occurrences of the reservable blocks that are not deleted
  blocksOnly,  \* resources with blocks_only
  req,         \* local state of the requests being served
  protected    \* history: the places of a reservation that its own booking
               \* transaction checked and that nothing has bypassed since

vars == <<row, places, blocks, blocksOnly, req, protected>>
database == <<row, places, blocks, blocksOnly, protected>>

Rows == [owner : Accounts \cup {None}, source : Sources, status : Statuses,
         cancelledBy : Accounts \cup {None}, recurring : BOOLEAN, deleted : BOOLEAN]

NoRow == [owner |-> None, source |-> "kuutar", status |-> "pending",
          cancelledBy |-> None, recurring |-> FALSE, deleted |-> FALSE]

NewRow(o, src, st, rule) ==
  [NoRow EXCEPT !.owner = o, !.source = src, !.status = st, !.recurring = rule]

RequestStates ==
  [op : {"none", "create", "update", "cancel", "split", "delete"},
   pc : {"idle", "validated", "checked", "copied", "moved"},
   actor : Accounts \cup {None},
   res : Reservations \cup {None},      \* the reservation in the path
   draft : Rows,                        \* the row to insert (create, split)
   hasOcc : BOOLEAN,                    \* the payload has occurrences
   places : SUBSET Places,              \* those occurrences
   rule : BOOLEAN,                      \* the payload has an rrule
   status : Statuses \cup {"keep"},     \* payload.status after the handler's rules
   seen : Statuses \cup {"none"},       \* existing.status as find_by_id returned it
   locks : SUBSET Resources]            \* resource rows locked FOR UPDATE

Idle == [op |-> "none", pc |-> "idle", actor |-> None, res |-> None, draft |-> NoRow,
         hasOcc |-> FALSE, places |-> {}, rule |-> FALSE, status |-> "keep",
         seen |-> "none", locks |-> {}]

TypeOK ==
  /\ row \in [Reservations -> Rows]
  /\ places \in [Reservations -> SUBSET Places]
  /\ blocks \subseteq Places
  /\ blocksOnly \subseteq Resources
  /\ req \in [Requests -> RequestStates]
  /\ protected \in [Reservations -> SUBSET Places]

Init ==
  /\ row = [r \in Reservations |-> NoRow]
  /\ places = [r \in Reservations |-> {}]
  /\ blocks = InitialBlocks
  /\ blocksOnly = InitialBlocksOnly
  /\ req = [q \in Requests |-> Idle]
  /\ protected = [r \in Reservations |-> {}]

-----------------------------------------------------------------------------
(* Reading the tables *)

Exists(r) == row[r].owner # None
Live(r) == Exists(r) /\ ~row[r].deleted
Active(r) == Live(r) /\ row[r].status # "cancelled"

Overlap(p, p2) == p.rsc = p2.rsc /\ p.from < p2.to /\ p2.from < p.to
ResourcesOf(ps) == {p.rsc : p \in ps}

(* Bound on the instance: a request that will insert a row starts only when *)
(* a row identifier is left for it.                                         *)
SpareRow ==
  Cardinality({r \in Reservations : ~Exists(r)})
    > Cardinality({q \in Requests : req[q].op \in {"create", "split"}})

(* find_by_id and the `source` test: rows imported from Outlook are edited   *)
(* there.  The test lets one request through, an administrator's that has    *)
(* nothing but the internal notes; it writes those alone and is left out.    *)
Manageable_NoSourceTest(r) == Live(r)
Manageable(r) == Live(r) /\ row[r].source = "kuutar"

OwnerOrAdmin(a, r) == a \in Users => row[r].owner = a

(* Only an admin edits or splits a cancelled reservation. *)
MayEdit_NoStatusTest(a, r) == OwnerOrAdmin(a, r)
MayEdit(a, r) ==
  /\ OwnerOrAdmin(a, r)
  /\ a \in Users => row[r].status # "cancelled"

(* A user's payload.status is replaced: confirmed if should_auto_confirm, *)
(* which an empty list of resources never does, else pending.             *)
Granted(a, ps, st) ==
  IF a \notin Users THEN st
  ELSE IF ps # {} /\ \A p \in ps : <<a, p.rsc>> \in AutoConfirm THEN "confirmed" ELSE "pending"

(* validate_recurring_permission *)
RuleAllowed(rule, ps) == rule => ResourcesOf(ps) \subseteq AllowRecurring

-----------------------------------------------------------------------------
(* Row locks *)

(* No other transaction holds one of these resource rows FOR UPDATE. *)
LockFree_NoWait(q, rscs) == TRUE
LockFree_WaitsForItself(q, rscs) == \A q2 \in Requests : req[q2].locks \cap rscs = {}
LockFree(q, rscs) == \A q2 \in Requests \ {q} : req[q2].locks \cap rscs = {}

(* An inserted occurrence references its resource, and the foreign key takes *)
(* the resource row FOR KEY SHARE, which waits for another's FOR UPDATE.     *)
MayInsert(q, ps) == LockFree(q, ResourcesOf(ps))

(* No split in progress holds row locks on these occurrences of r. *)
NotMoving_NoWait(r, ps) == TRUE
NotMoving(r, ps) ==
  \A q \in Requests :
    req[q].pc = "moved" /\ req[q].res = r => req[q].places \cap ps = {}

-----------------------------------------------------------------------------
(* The blocks-only rule, validate_block_only_occurrences *)

BlocksOnlyOf(ps) == ResourcesOf(ps) \cap blocksOnly

Taken_ConfirmedOnly(p, except) ==
  \E r \in Reservations \ {except} :
    /\ Live(r) /\ row[r].status = "confirmed"
    /\ \E p2 \in places[r] : Overlap(p, p2)
Taken(p, except) ==
  \E r \in Reservations \ {except} : Active(r) /\ \E p2 \in places[r] : Overlap(p, p2)

BlockRuleHolds(d) ==
  LET locked == {p \in d.places : p.rsc \in blocksOnly}
  IN  locked # {} =>
        /\ ~d.rule
        /\ \A p, p2 \in locked : p.rsc = p2.rsc => p = p2
        /\ \A p \in locked : p \in blocks /\ ~Taken(p, d.res)

(* Callers skip the rule for admins; an edit without occurrences skips it too. *)
Enforced(d) == d.actor \in Users /\ d.hasOcc

BlockCheck(q) ==
  LET d == req[q] IN
  /\ d.op \in {"create", "update"} /\ d.pc = "validated" /\ Enforced(d)
  /\ LockFree(q, BlocksOnlyOf(d.places))
  /\ \/ /\ BlockRuleHolds(d)
        /\ req' = [req EXCEPT ![q].pc = "checked", ![q].locks = BlocksOnlyOf(d.places)]
     \/ /\ ~BlockRuleHolds(d)
        /\ req' = [req EXCEPT ![q] = Idle]
  /\ UNCHANGED database

ReadyToWrite(d, op) == d.op = op /\ d.pc = (IF Enforced(d) THEN "checked" ELSE "validated")

(* The places the request's own transaction has checked under a lock. *)
CheckedPlaces(d) == {p \in d.places : p.rsc \in d.locks}

-----------------------------------------------------------------------------
(* What a request does first: reads and validations, nothing written *)

Start(q, d) ==
  /\ req[q].pc = "idle" /\ d.op \in Ops
  /\ req' = [req EXCEPT ![q] = [d EXCEPT !.pc = "validated"]]
  /\ UNCHANGED database

(* POST /reservations *)
CreateStart(q, a, o, ps, rule, st) ==
  /\ SpareRow
  /\ ps # {}
  /\ a \in Users =>
       /\ o = a
       /\ RuleAllowed(rule, ps)
       /\ \A p \in ps : <<a, p>> \in Open /\ <<a, p.rsc>> \in MayReserve
  /\ Start(q, [Idle EXCEPT !.op = "create", !.actor = a, !.hasOcc = TRUE, !.places = ps,
                           !.rule = rule,
                           !.draft = NewRow(o, "kuutar", Granted(a, ps, st), rule)])

CreateCommit(q, r) ==
  LET d == req[q] IN
  /\ ReadyToWrite(d, "create")
  /\ ~Exists(r)
  /\ MayInsert(q, d.places)
  /\ row' = [row EXCEPT ![r] = d.draft]
  /\ places' = [places EXCEPT ![r] = d.places]
  /\ protected' = [protected EXCEPT ![r] = CheckedPlaces(d)]
  /\ req' = [req EXCEPT ![q] = Idle]
  /\ UNCHANGED <<blocks, blocksOnly>>

-----------------------------------------------------------------------------
(* PATCH /reservations/{id} *)

UpdateStart(q, a, r, hasOcc, ps, rule, st) ==
  /\ Manageable(r)
  /\ MayEdit(a, r)
  /\ ~hasOcc => ps = {}
  /\ st = "cancelled" => row[r].status = "cancelled"
  /\ a \in Users /\ hasOcc =>
       /\ RuleAllowed(rule, ps)
       /\ \A p \in ps : <<a, p>> \in Open
       /\ \A rsc \in ResourcesOf(ps) \ ResourcesOf(places[r]) : <<a, rsc>> \in MayReserve
  /\ Start(q, [Idle EXCEPT !.op = "update", !.actor = a, !.res = r, !.hasOcc = hasOcc,
                           !.places = ps, !.rule = rule, !.seen = row[r].status,
                           !.status = Granted(a, IF hasOcc THEN ps ELSE places[r], st)])

(* The SET list of the UPDATE statement. *)
Edited_KeepsCancellation(w, d) ==
  [w EXCEPT !.status = IF d.status = "keep" THEN @ ELSE d.status,
            !.recurring = IF d.hasOcc THEN d.rule ELSE @ \/ d.rule]
Edited_NoCoalesce(w, d) == [w EXCEPT !.status = d.status]
Edited(w, d) ==
  [w EXCEPT !.status = IF d.status = "keep" THEN @ ELSE d.status,
            !.cancelledBy = IF d.status \in {"keep", "cancelled"} THEN @ ELSE None,
            !.recurring = IF d.hasOcc THEN d.rule ELSE @ \/ d.rule]

(* The row is found by its id and only tested for deleted_at: not for what  *)
(* the handler has read before.                                             *)
UpdateCommit(q) ==
  LET d == req[q]
      r == d.res
  IN
  /\ ReadyToWrite(d, "update")
  /\ Live(r)
  /\ d.hasOcc => MayInsert(q, d.places) /\ NotMoving(r, places[r])
  /\ row' = [row EXCEPT ![r] = Edited(@, d)]
  /\ places' = [places EXCEPT ![r] = IF d.hasOcc THEN d.places ELSE @]
  /\ protected' = [protected EXCEPT ![r] = IF d.hasOcc THEN CheckedPlaces(d)
                                           ELSE IF row[r].status = "cancelled" THEN {} ELSE @]
  /\ req' = [req EXCEPT ![q] = Idle]
  /\ UNCHANGED <<blocks, blocksOnly>>

(* rows_affected = 0: NotFound, and the transaction is rolled back. *)
UpdateNotFound(q) ==
  /\ ReadyToWrite(req[q], "update")
  /\ ~Live(req[q].res)
  /\ req' = [req EXCEPT ![q] = Idle]
  /\ UNCHANGED database

-----------------------------------------------------------------------------
(* POST /reservations/{id}/cancel *)

CancelStart(q, a, r) ==
  /\ Manageable(r)
  /\ OwnerOrAdmin(a, r)
  /\ Start(q, [Idle EXCEPT !.op = "cancel", !.actor = a, !.res = r])

(* The WHERE clause of the cancelling UPDATE. *)
Cancellable_NoStatusTest(r) == Live(r)
Cancellable(r) == Live(r) /\ row[r].status # "cancelled"

CancelCommit(q) ==
  LET d == req[q]
      r == d.res
  IN
  /\ d.op = "cancel" /\ d.pc = "validated"
  /\ \/ /\ Cancellable(r)
        /\ row' = [row EXCEPT ![r].status = "cancelled", ![r].cancelledBy = d.actor]
        /\ req' = [req EXCEPT ![q] = Idle]
     \/ /\ ~Cancellable(r)
        /\ req' = [req EXCEPT ![q] = Idle]
        /\ row' = row
  /\ UNCHANGED <<places, blocks, blocksOnly, protected>>

-----------------------------------------------------------------------------
(* POST /reservations/{id}/split *)

SplitStart(q, a, r, ps, rule) ==
  /\ SpareRow
  /\ Manageable(r)
  /\ MayEdit(a, r)
  /\ ps # {} /\ ps \subseteq places[r]
  /\ Start(q, [Idle EXCEPT !.op = "split", !.actor = a, !.res = r, !.places = ps,
                           !.rule = rule])

(* INSERT ... SELECT: the copy has no rule and is a Kuutar reservation. *)
SplitCopy(q) ==
  LET d == req[q] IN
  /\ d.op = "split" /\ d.pc = "validated"
  /\ \/ /\ Live(d.res)
        /\ req' = [req EXCEPT ![q].pc = "copied",
                              ![q].draft = [row[d.res] EXCEPT !.recurring = FALSE,
                                                              !.source = "kuutar"]]
     \/ /\ ~Live(d.res)
        /\ req' = [req EXCEPT ![q] = Idle]
  /\ UNCHANGED database

(* UPDATE occurrences, then the count of the rows that remain.  Rows moved  *)
(* by another uncommitted split are waited for one by one, but still count  *)
(* as remaining.                                                            *)
SplitMove(q) ==
  LET d == req[q] IN
  /\ d.op = "split" /\ d.pc = "copied"
  /\ NotMoving(d.res, d.places)
  /\ \/ /\ d.places \subseteq places[d.res] /\ places[d.res] \ d.places # {}
        /\ req' = [req EXCEPT ![q].pc = "moved"]
     \/ /\ ~(d.places \subseteq places[d.res] /\ places[d.res] \ d.places # {})
        /\ req' = [req EXCEPT ![q] = Idle]
  /\ UNCHANGED database

SplitCommit(q, new) ==
  LET d == req[q]
      r == d.res
  IN
  /\ d.op = "split" /\ d.pc = "moved"
  /\ ~Exists(new)
  /\ row' = [row EXCEPT ![new] = d.draft, ![r].recurring = d.rule]
  /\ places' = [places EXCEPT ![new] = d.places, ![r] = @ \ d.places]
  /\ protected' = [protected EXCEPT ![r] = @ \ d.places]
  /\ req' = [req EXCEPT ![q] = Idle]
  /\ UNCHANGED <<blocks, blocksOnly>>

-----------------------------------------------------------------------------
(* DELETE /reservations/{id}, admins only *)

DeleteStart(q, a, r) ==
  /\ a \in Admins
  /\ Manageable(r)
  /\ Start(q, [Idle EXCEPT !.op = "delete", !.actor = a, !.res = r])

DeleteCommit(q) ==
  LET d == req[q] IN
  /\ d.op = "delete" /\ d.pc = "validated"
  /\ row' = [row EXCEPT ![d.res].deleted = TRUE]
  /\ req' = [req EXCEPT ![q] = Idle]
  /\ UNCHANGED <<places, blocks, blocksOnly, protected>>

-----------------------------------------------------------------------------
(* Other writers of the same tables *)

NoLockOn(rscs) == \A q \in Requests : req[q].locks \cap rscs = {}

(* POST /reservations/batch-import: one item; no check. *)
BatchImport(a, r, o, ps, rule, st) ==
  /\ "import" \in Ops /\ a \in Admins /\ SpareRow
  /\ ~Exists(r)
  /\ NoLockOn(ResourcesOf(ps))
  /\ row' = [row EXCEPT ![r] = NewRow(o, "kuutar", st, rule)]
  /\ places' = [places EXCEPT ![r] = ps]
  /\ UNCHANGED <<blocks, blocksOnly, req, protected>>

(* import_invite, a REQUEST: a new row, or the row of the same ical_uid *)
(* again; an earlier cancellation's columns are not cleared.            *)
OutlookRequest(r, o, ps, rule) ==
  /\ "outlook" \in Ops
  /\ \/ ~Exists(r) /\ SpareRow
     \/ Live(r) /\ row[r].source = "outlook"
  /\ NoLockOn(ResourcesOf(ps))
  /\ row' = [row EXCEPT ![r].owner = o, ![r].source = "outlook", ![r].status = "confirmed",
                        ![r].recurring = rule]
  /\ places' = [places EXCEPT ![r] = ps]
  /\ UNCHANGED <<blocks, blocksOnly, req, protected>>

(* set_cancelled: no canceller is recorded and the occurrences stay. *)
OutlookCancel(r) ==
  /\ "outlook" \in Ops
  /\ Live(r) /\ row[r].source = "outlook"
  /\ row' = [row EXCEPT ![r].status = "cancelled"]
  /\ UNCHANGED <<places, blocks, blocksOnly, req, protected>>

(* An admin changes blocks_only; the UPDATE waits for FOR UPDATE locks. *)
EditResource(rsc) ==
  /\ "resources" \in Ops
  /\ NoLockOn({rsc})
  /\ blocksOnly' = IF rsc \in blocksOnly THEN blocksOnly \ {rsc} ELSE blocksOnly \cup {rsc}
  /\ UNCHANGED <<row, places, blocks, req, protected>>

(* An admin adds or removes a block occurrence; reservations stay as they are. *)
EditBlock(p) ==
  /\ "blocks" \in Ops
  /\ blocks' = IF p \in blocks THEN blocks \ {p} ELSE blocks \cup {p}
  /\ UNCHANGED <<row, places, blocksOnly, req, protected>>

(* The process dies, the connection is lost, or PostgreSQL picks the      *)
(* transaction as a deadlock victim: what it has not committed is undone. *)
Abort(q) ==
  /\ "abort" \in Ops
  /\ req[q].pc # "idle"
  /\ req' = [req EXCEPT ![q] = Idle]
  /\ UNCHANGED database

-----------------------------------------------------------------------------
Arrive(q) ==
  \E a \in Accounts, rule \in RulePayloads :
    \/ \E o \in Accounts, ps \in OccurrenceLists, st \in StatusPayloads \cup {"pending"} :
         CreateStart(q, a, o, ps, rule, st)
    \/ \E r \in Reservations :
         \/ \E hasOcc \in BOOLEAN, ps \in OccurrenceLists \cup {{}},
               st \in StatusPayloads \cup {"keep"} : UpdateStart(q, a, r, hasOcc, ps, rule, st)
         \/ \E ps \in SUBSET places[r] : SplitStart(q, a, r, ps, rule)
    \/ \E r \in Reservations : CancelStart(q, a, r) \/ DeleteStart(q, a, r)

Continue(q) ==
  \/ BlockCheck(q)
  \/ \E r \in Reservations : CreateCommit(q, r)
  \/ UpdateCommit(q)
  \/ UpdateNotFound(q)
  \/ CancelCommit(q)
  \/ SplitCopy(q)
  \/ SplitMove(q)
  \/ \E new \in Reservations : SplitCommit(q, new)
  \/ DeleteCommit(q)

Elsewhere ==
  \/ \E a \in Admins, r \in Reservations, o \in Accounts, ps \in OccurrenceLists,
        rule \in RulePayloads, st \in StatusPayloads : BatchImport(a, r, o, ps, rule, st)
  \/ \E r \in Reservations, o \in Accounts, ps \in OccurrenceLists, rule \in RulePayloads :
        OutlookRequest(r, o, ps, rule)
  \/ \E r \in Reservations : OutlookCancel(r)
  \/ \E rsc \in Resources : EditResource(rsc)
  \/ \E p \in Places : EditBlock(p)

Next ==
  \/ \E q \in Requests : Arrive(q) \/ Continue(q) \/ Abort(q)
  \/ Elsewhere

Spec == Init /\ [][Next]_vars

(* The runtime polls every request and PostgreSQL grants row locks in the *)
(* order they are asked for, so a request that can go on again and again  *)
(* eventually does.                                                       *)
FairSpec == Spec /\ \A q \in Requests : SF_vars(Continue(q))

-----------------------------------------------------------------------------
(* Properties *)

(* What r holds under the blocks-only rule. *)
Held(r) == IF Active(r) THEN protected[r] ELSE {}

(* Two live bookings whose places were both checked by their own booking   *)
(* transaction never overlap: the FOR UPDATE lock of                       *)
(* validate_block_only_occurrences makes check and insert one step.        *)
ProtectedDisjoint ==
  \A r, r2 \in Reservations :
    r # r2 /\ Active(r) /\ Active(r2) =>
      \A p \in protected[r], p2 \in protected[r2] : ~Overlap(p, p2)

(* The tables implement the ledger of the blocks-only rule: every commit     *)
(* changes what at most one booking holds, and what it comes to hold is      *)
(* free of all others at that instant.                                       *)
Ledger == INSTANCE BlockLedger WITH
  Bookings <- Reservations,
  Slots <- Places,
  Clashing <- {pp \in Places \X Places : Overlap(pp[1], pp[2])},
  held <- [r \in Reservations |-> Held(r)]

ImplementsLedger == Ledger!Spec

(* A Kuutar reservation that is not cancelled carries no trace of a          *)
(* cancellation: reopening clears cancelled_by, and a split copies status    *)
(* and canceller from one row version.                                       *)
ActiveHasNoCanceller ==
  \A r \in Reservations :
    Active(r) /\ row[r].source = "kuutar" => row[r].cancelledBy = None

(* A soft-deleted reservation is neither reopened, cancelled, undeleted nor  *)
(* given to somebody else, whatever requests had read it before.             *)
DeletedIsFinal ==
  [][\A r \in Reservations : row[r].deleted =>
       /\ row'[r].deleted
       /\ row'[r].status = row[r].status
       /\ row'[r].cancelledBy = row[r].cancelledBy]_vars

(* Of concurrent cancellations one wins: the recorded canceller is never     *)
(* overwritten by another, only cleared by reopening.                        *)
CancellerIsKept ==
  [][\A r \in Reservations : row[r].cancelledBy # None =>
       row'[r].cancelledBy \in {row[r].cancelledBy, None}]_vars

SplitEnds(q) == req[q].pc = "moved" /\ places' # places /\ req'[q].pc = "idle"

(* A split loses and doubles no occurrence, whatever commits while it runs:  *)
(* the two halves are disjoint and together are what the reservation had.    *)
SplitConserves ==
  [][\A q \in Requests : SplitEnds(q) =>
         \E new \in Reservations :
           /\ ~Exists(new)
           /\ places'[new] # {}
           /\ places'[new] \cap places'[req[q].res] = {}
           /\ places'[new] \cup places'[req[q].res] = places[req[q].res]]_vars

Reopens(r) ==
  /\ Exists(r) /\ row[r].source = "kuutar"
  /\ row[r].status = "cancelled" /\ row'[r].status # "cancelled"

WritesTo(q, r) == req[q].res = r /\ req[q].op = "update" /\ req'[q] # req[q]

(* A cancelled reservation is reopened by an admin, or by an owner's edit    *)
(* that had read the reservation before it was cancelled: there is no other  *)
(* way back.                                                                 *)
ReopenedByAdminOrStaleEdit ==
  [][\A r \in Reservations : Reopens(r) =>
       \E q \in Requests :
         WritesTo(q, r) /\ (req[q].actor \in Admins \/ req[q].seen # "cancelled")]_vars

(* Only the importer changes a reservation that came from Outlook: no step   *)
(* of a request touches the columns kept here, or its occurrences, however   *)
(* the steps of handlers and importer interleave.  (An administrator's notes *)
(* on such a reservation are no column of this model.)                       *)
OutlookOwnsItsRows ==
  [][req' # req =>
       \A r \in Reservations : row[r].source = "outlook" =>
         row'[r] = row[r] /\ places'[r] = places[r]]_vars

(* Every request is answered: no lock is kept or waited for in vain. *)
RequestsFinish ==
  \A q \in Requests : req[q].pc # "idle" ~> req[q].pc = "idle"

=============================================================================

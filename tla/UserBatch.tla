------------------------------- MODULE UserBatch -------------------------------
(***************************************************************************)
(* An administrator changes many users at once: registers a file of them   *)
(* (routes/_app/admin/users/batch-register.tsx) or moves the ones ticked   *)
(* in the list (routes/_app/admin/users/index.tsx).                        *)
(*                                                                         *)
(* Which rows of the file are new users and which are changes to existing  *)
(* ones is decided from the list the browser holds, which may be older     *)
(* than the table.  Each row is its own request (hooks/useUsers.ts), the   *)
(* requests run concurrently, some may fail, and a page that was left does *)
(* not stop them.  Other administrators register, move, rename and delete  *)
(* users meanwhile.                                                        *)
(*                                                                         *)
(* A user is identified by a number; of the fields of a user only the      *)
(* group and whether the contact of the file was written are kept.  Every  *)
(* row of a file has a contact, so that a new user takes two requests, and *)
(* every change of ticked users has a group: a row without a contact sends *)
(* one request less, and a change of the language alone moves nobody.      *)
(***************************************************************************)
EXTENDS Integers, FiniteSets

CONSTANTS
  Emails, UserGroups,
  Nobody, NoGroup,   \* no account, and no group chosen
  MaxUsers,      \* bound on the accounts ever registered
  MaxBatches,    \* bound on the batches sent
  MaxOthers      \* bound on the steps of the other administrators, a batch
                 \* counting for two

User == [id : 1..MaxUsers, group : UserGroups, contact : BOOLEAN]
Tables == [Emails -> User \cup {Nobody}]

ASSUME BatchAssumption ==
  /\ NoGroup \notin UserGroups /\ Nobody \notin User
  /\ MaxUsers \in Nat \ {0} /\ MaxBatches \in Nat /\ MaxOthers \in Nat

VARIABLES
  users,     \* the accounts that are not deleted, by address
  known,     \* the list of users as the browser has it
  page,      \* the page that is open, and its state
  flight,    \* the requests of the batches
  allowed,   \* history: what the pages showed would be done, per batch
  count      \* history: accounts registered, batches sent, steps of others

batchVars == <<users, known, page, flight, allowed, count>>

(* a row of the file: none for the address, one without a name or a         *)
(* password, or one with everything.  Every row has a contact.              *)
RowKinds == {"absent", "bare", "full"}

ListPage == [at |-> "list", refused |-> FALSE, waits |-> 0]
ImportPage == [ListPage EXCEPT !.at = "import"]

BatchInit ==
  /\ users \in {t \in Tables : \A e \in Emails : t[e] # Nobody => t[e].id = 1}
  /\ Cardinality({e \in Emails : users[e] # Nobody}) = 1
  /\ known = users
  /\ page = ListPage
  /\ flight = {}
  /\ allowed = [b \in 1..MaxBatches |-> {}]
  /\ count = [ids |-> 1, batches |-> 0, others |-> 0]

-----------------------------------------------------------------------------
(* The page of the file.  What is typed or ticked on a page has no effect   *)
(* before the button, which reads it as it is then: rows, a group, the box  *)
(* for moving existing users and the ticks are inputs of the two buttons.   *)
Found(e) == known[e] # Nobody
InFile(rows) == {e \in Emails : rows[e] # "absent"}
Created(rows) == {e \in InFile(rows) : ~Found(e)}

(* validationErrors, by the list as it is now: only a new user needs a name *)
(* and a password.  The other errors leave nothing to send at all.          *)
Valid(rows) == \A e \in Created(rows) : rows[e] = "full"
NeedsGroup(rows, move) == Created(rows) # {} \/ move

(* handleParseInput, of a file or of typed text, drops what the last answer *)
(* said                                                                     *)
Parse ==
  /\ page.refused
  /\ page' = [page EXCEPT !.refused = FALSE]
  /\ UNCHANGED <<users, known, flight, allowed, count>>

Waiting == page.waits # 0

Request == [batch : 1..MaxBatches, kind : {"create", "patch", "update"}, email : Emails,
            id : 0..MaxUsers, group : UserGroups \cup {NoGroup}, contact : BOOLEAN,
            state : {"sent", "done", "failed"}]

(* handleSubmit of the page of the file: what becomes of a row.  The first *)
(* form always sends the chosen group.                                     *)
RowRequest_AlwaysMoves(e, group, move) ==
  [batch |-> count.batches + 1, kind |-> IF Found(e) THEN "update" ELSE "create", email |-> e,
   id |-> IF Found(e) THEN known[e].id ELSE 0,
   group |-> group, contact |-> TRUE, state |-> "sent"]
RowRequest(e, group, move) ==
  [batch |-> count.batches + 1, kind |-> IF Found(e) THEN "update" ELSE "create", email |-> e,
   id |-> IF Found(e) THEN known[e].id ELSE 0,
   group |-> IF Found(e) /\ ~move THEN NoGroup ELSE group,
   contact |-> TRUE, state |-> "sent"]

Send(requests, promise) ==
  LET b == count.batches + 1 IN
  /\ b <= MaxBatches /\ count.others + 2 * b <= MaxOthers + 2   \* bound
  /\ flight' = flight \cup requests
  /\ allowed' = [allowed EXCEPT ![b] = promise]
  /\ count' = [count EXCEPT !.batches = b]
  /\ page' = [page EXCEPT !.waits = b]
  /\ UNCHANGED <<users, known>>

(* The preview says of each row whether it registers or updates, the two   *)
(* controls above it the group and whether existing users move.            *)
Import ==
  /\ page.at = "import" /\ ~Waiting /\ ~page.refused
  /\ \E rows \in [Emails -> RowKinds], group \in UserGroups \cup {NoGroup}, move \in BOOLEAN :
       /\ InFile(rows) # {} /\ Valid(rows)
       /\ NeedsGroup(rows, move) => group # NoGroup
       /\ Send({RowRequest(e, group, move) : e \in InFile(rows)},
               {[new |-> TRUE, who |-> e, group |-> group] : e \in Created(rows)}
               \cup {[new |-> FALSE, who |-> known[e].id, group |-> group] :
                       e \in IF move THEN InFile(rows) \ Created(rows) ELSE {}})

(* UserList: the ticked users that are still in the list *)
Apply ==
  /\ page.at = "list" /\ ~Waiting
  /\ \E ticked \in SUBSET {e \in Emails : Found(e)} \ {{}}, group \in UserGroups :
       Send({[batch |-> count.batches + 1, kind |-> "update", email |-> e,
              id |-> known[e].id, group |-> group, contact |-> FALSE,
              state |-> "sent"] : e \in ticked},
            {[new |-> FALSE, who |-> known[e].id, group |-> group] : e \in ticked})

(* The page is left and with it what it held; its requests go on. *)
GoTo ==
  /\ page' \in {ListPage, ImportPage} \ {page}
  /\ UNCHANGED <<users, known, flight, allowed, count>>

(* the list is fetched again *)
Fetch ==
  /\ known' = users
  /\ UNCHANGED <<users, page, flight, allowed, count>>

-----------------------------------------------------------------------------
(* The server. A request may fail whatever it asks for, and its answer may *)
(* be lost after it was served.                                            *)
Becomes(r, state) == flight' = (flight \ {r}) \cup {[r EXCEPT !.state = state]}

(* create_user: the address must be free.  The contact is patched in after, *)
(* once the answer has the number of the account.                           *)
Register(r) ==
  /\ r.state = "sent" /\ r.kind = "create"
  /\ users[r.email] = Nobody /\ count.ids < MaxUsers           \* bound
  /\ users' = [users EXCEPT ![r.email] = [id |-> count.ids + 1, group |-> r.group,
                                          contact |-> FALSE]]
  /\ count' = [count EXCEPT !.ids = @ + 1]
  /\ \/ flight' = (flight \ {r}) \cup {[r EXCEPT !.kind = "patch", !.id = count.ids + 1,
                                                 !.group = NoGroup]}
     \/ Becomes(r, "failed")
  /\ UNCHANGED <<known, page, allowed>>

(* update_user: by the number of the account, what was not sent stays *)
Update(r) ==
  /\ r.state = "sent" /\ r.kind \in {"update", "patch"}
  /\ \E e \in Emails :
       /\ users[e] # Nobody /\ users[e].id = r.id
       /\ users' = [users EXCEPT ![e].group = IF r.group = NoGroup THEN @ ELSE r.group,
                                 ![e].contact = @ \/ r.contact]
  /\ \E state \in {"done", "failed"} : Becomes(r, state)
  /\ UNCHANGED <<known, page, allowed, count>>

Refuse(r) ==
  /\ r.state = "sent"
  /\ Becomes(r, "failed")
  /\ UNCHANGED <<users, known, page, allowed, count>>

(* Promise.allSettled: once every request of a batch has its answer, the    *)
(* list is fetched again and the page hears whether all went well.  A batch *)
(* of a file then goes to the list from whatever page is open.  A page      *)
(* opened since hears nothing.                                              *)
Settle(b) ==
  LET all == {r \in flight : r.batch = b}
      failed == \E r \in all : r.state = "failed"
      imported == \E r \in all : r.kind # "update" \/ r.contact
  IN
  /\ all # {} /\ \A r \in all : r.state # "sent"
  /\ flight' = flight \ all
  /\ known' = users
  /\ page' = CASE failed /\ page.waits = b ->
                    [page EXCEPT !.waits = 0, !.refused = page.at = "import"]
               [] ~failed /\ imported -> IF page.at = "list" THEN page ELSE ListPage
               [] ~failed /\ ~imported /\ page.waits = b -> ListPage
               [] OTHER -> page
  /\ allowed' = [allowed EXCEPT ![b] = {}]
  /\ UNCHANGED <<users, count>>

-----------------------------------------------------------------------------
(* The other administrators. *)
Others ==
  /\ count.others < MaxOthers /\ count.others + 2 * count.batches < MaxOthers + 2   \* bound
  /\ \/ \E e \in Emails, g \in UserGroups :
          /\ users[e] = Nobody /\ count.ids < MaxUsers
          /\ users' = [users EXCEPT ![e] = [id |-> count.ids + 1, group |-> g,
                                            contact |-> FALSE]]
          /\ count' = [count EXCEPT !.others = @ + 1, !.ids = @ + 1]
     \/ \E e \in Emails, g \in UserGroups :
          /\ users[e] # Nobody
          /\ users' = [users EXCEPT ![e].group = g]
          /\ count' = [count EXCEPT !.others = @ + 1]
     \/ \E e, to \in Emails :
          /\ users[e] # Nobody /\ users[to] = Nobody
          /\ users' = [users EXCEPT ![e] = Nobody, ![to] = users[e]]
          /\ count' = [count EXCEPT !.others = @ + 1]
     \/ \E e \in Emails :
          /\ users[e] # Nobody
          /\ users' = [users EXCEPT ![e] = Nobody]
          /\ count' = [count EXCEPT !.others = @ + 1]
  /\ UNCHANGED <<known, page, flight, allowed>>

BatchNext ==
  \/ Parse \/ Import \/ Apply \/ GoTo \/ Fetch
  \/ \E r \in flight : Register(r) \/ Update(r) \/ Refuse(r)
  \/ \E b \in 1..MaxBatches : Settle(b)
  \/ Others

BatchSpec == BatchInit /\ [][BatchNext]_batchVars

-----------------------------------------------------------------------------
(* The types of the state. *)
BatchTypeOK ==
  /\ users \in Tables /\ known \in Tables
  /\ page \in [at : {"list", "import"}, refused : BOOLEAN, waits : 0..MaxBatches]
  /\ flight \subseteq Request
  /\ count \in [ids : 0..MaxUsers, batches : 0..MaxBatches, others : 0..MaxOthers]

Accounts(table) == {table[e] : e \in {x \in Emails : table[x] # Nobody}}
Promised == UNION {allowed[b] : b \in 1..MaxBatches}

(* The requests of a batch do to the accounts only what the page showed     *)
(* when it was sent, however old its list was: an account gets another      *)
(* group only if the page listed that very account as one to be moved there *)
(* (a file row for an existing user does not move it unless moving was      *)
(* ticked, and never an account registered under the address since); one    *)
(* is registered only for a row shown as new, in the chosen group; and none *)
(* is deleted or loses its address.                                         *)
MovesOnlyAsked ==
  [][Others \/ \A e \in Emails : users'[e] # users[e] =>
       /\ users'[e] # Nobody
       /\ users[e] = Nobody =>
            [new |-> TRUE, who |-> e, group |-> users'[e].group] \in Promised
       /\ users[e] # Nobody =>
            /\ users'[e].id = users[e].id
            /\ users'[e].group # users[e].group =>
                 [new |-> FALSE, who |-> users[e].id, group |-> users'[e].group]
                   \in Promised]_users
=============================================================================

----------------------------- MODULE QueryCache -----------------------------
(***************************************************************************)
(* What the client's data hooks (client/src/hooks/use*.ts) keep in the     *)
(* query cache, and what each mutation does to it once it is answered.     *)
(*                                                                         *)
(* The entries of the cache do not influence each other, so the module     *)
(* watches one key, any of them, chosen initially.  An answer is the set   *)
(* of writes it reflects: a cached answer is out of date when the server   *)
(* has writes that it lacks.  A fetch reads the server's state when it is  *)
(* answered and stores it later; a mutation writes, and settles later.     *)
(*                                                                         *)
(* The cache itself is @tanstack/react-query, modelled from how the hooks  *)
(* use it: a write to the cache does not stop a fetch; an invalidation     *)
(* marks the entry and, for a mounted query, restarts a fetch, unless it   *)
(* is the first one of the entry; a removal discards the fetch.            *)
(***************************************************************************)
EXTENDS Naturals, FiniteSets, SequencesExt

CONSTANTS
  Slots,        \* mutations in flight at a time
  MaxWrites,    \* bound on the writes to what is watched
  Absent

ASSUME QueryCacheAssumption == MaxWrites \in Nat

-----------------------------------------------------------------------------
(* The keys.  "it" is the item mutations are about, "new" one split off it. *)
List(domain) == <<domain, "list">>
Detail(domain, item) == <<domain, "detail", item>>

Reservations == <<"reservations">>
Blocks == <<"reservable-blocks">>
Restrictions == <<"restrictions">>
ResourceList == <<"resources">>        \* the key of the list, and the prefix of the details
Contracts == <<"contracts">>
UserSessions == <<"users", "detail", "it", "sessions">>
MySessions == <<"auth", "sessions">>
Me == <<"auth", "me">>
Templates == List("email-templates")
Outlook == <<"outlook-sync", "status">>
Search == <<"search", "reservations", "query">>
Stats == <<"stats", "summary", "range">>
BatchPrint == <<"reservations", "batch", "ids">>
Everything == <<>>

(* The rows an answer is made of: those of "it", and which rows there are.  *)
(* What a viewer may see of them does not enter: the hooks that change it   *)
(* are an administrator's, who sees everything, and a sign-in invalidates   *)
(* the whole cache.                                                         *)
It(table) == <<table, "it">>
RowsOf(table) == <<table, "rows">>
Both(table) == {It(table), RowsOf(table)}
Occupancy == It("occupancy")    \* when resources are reserved
OwnerNames == It("names")       \* reservations are listed with their owner's name and address

(* The tables of queries: <<key, row>> when the answer of the key shows the row. *)
KeysOf(queries) == {q[1] : q \in queries}

ReservationQueries ==
  ({List("reservations"), <<"reservations", "my-list">>} \X (Both("reservations") \cup {OwnerNames}))
    \cup ({Detail("reservations", "it"), BatchPrint} \X {It("reservations"), OwnerNames})
    \cup ({Detail("reservations", "new")} \X {RowsOf("reservations"), OwnerNames})

BlockQueries ==
  ({List("reservable-blocks")} \X (Both("blocks") \cup {Occupancy}))
    \cup ({Detail("reservable-blocks", "it")} \X {It("blocks"), Occupancy})
    \cup ({Detail("reservable-blocks", "new")} \X {RowsOf("blocks"), Occupancy})

RestrictionQueries ==
  ({List("restrictions")} \X Both("restrictions"))
    \cup {<<Detail("restrictions", "it"), It("restrictions")>>,
          <<Detail("restrictions", "new"), RowsOf("restrictions")>>}

(* a list, and an item of it *)
ListAndItem(list, item, table) == ({list} \X Both(table)) \cup {<<item, It(table)>>}

ContractQueries == ListAndItem(List("contracts"), Detail("contracts", "it"), "contracts")
CollectionQueries == ListAndItem(List("collections"), Detail("collections", "it"), "collections")
GroupQueries == ListAndItem(List("groups"), Detail("groups", "it"), "groups")
UserQueries == ListAndItem(List("users"), Detail("users", "it"), "users")

ResourceQueries ==
  ListAndItem(ResourceList, Detail("resources", "it"), "resources")
    \cup ({ResourceList, Detail("resources", "it")} \X {It("viewer")})

(* The user's own row is "it": an admin may edit it on the users page too. *)
AuthQueries == {Me} \X {It("users"), It("viewer")}
SessionQueries == {MySessions, UserSessions} \X Both("sessions")
TemplateQueries == {<<Templates, It("templates")>>}
OutlookQueries == {<<Outlook, It("outlook")>>}
SearchQueries == {Search} \X (Both("reservations") \cup {OwnerNames})

(* The use of resources by resource, group and user, and how many resources, *)
(* groups and users there are (server/src/domains/stats/db.rs).              *)
StatsQueries ==
  {Stats} \X UNION {Both(table) : table \in {"reservations", "resources", "groups", "users"}}

Reads ==
  UNION {ReservationQueries, BlockQueries, RestrictionQueries, ContractQueries, ResourceQueries,
         CollectionQueries, GroupQueries, UserQueries, AuthQueries, SessionQueries, TemplateQueries,
         OutlookQueries, SearchQueries, StatsQueries}

Keys == KeysOf(Reads)

(* staleTime: only useResources turns it off. *)
NeverFresh == {ResourceList}

-----------------------------------------------------------------------------
(* The mutations: the rows they write, and what the hook then does to the   *)
(* cache: setQueryData with the answer, removeQueries, invalidateQueries.   *)
(* A hook with onSettled does so even if the mutation has failed.           *)
Effect(name, writes, invalidates) ==
  [name |-> name, writes |-> writes, invalidates |-> invalidates,
   sets |-> {}, merges |-> {}, removes |-> {}, settled |-> FALSE]
Setting(e, keys) == [e EXCEPT !.sets = keys]
Removing(e, keys) == [e EXCEPT !.removes = keys]

ReservationTable(both) ==
  LET add(name) == Effect(name, {RowsOf("reservations"), Occupancy}, both)
      edit(name) == Setting(Effect(name, {It("reservations"), Occupancy}, both),
                            {Detail("reservations", "it")})
  IN {add("createReservation"), add("importReservations"),
      edit("updateReservation"), edit("cancelReservation"),
      Setting(Effect("splitReservation", Both("reservations"), {Reservations}),
              {Detail("reservations", "new")}),
      Removing(Effect("deleteReservation", Both("reservations") \cup {Occupancy}, both),
               {Detail("reservations", "it")})}

ReservationWrites_KeepBlocks == ReservationTable({Reservations})
ReservationWrites == ReservationTable({Reservations, Blocks})

(* create, update, split and delete of what has a list of rows and their details *)
SplittableWrites(create, update, split, delete, table, all, it, new) ==
  {Effect(create, {RowsOf(table)}, {all}),
   Setting(Effect(update, {It(table)}, {all}), {it}),
   Setting(Effect(split, Both(table), {all}), {new}),
   Removing(Effect(delete, Both(table), {all}), {it})}

BlockWrites ==
  SplittableWrites("createBlock", "updateBlock", "splitBlock", "deleteBlock", "blocks", Blocks,
                   Detail("reservable-blocks", "it"), Detail("reservable-blocks", "new"))

RestrictionWrites ==
  SplittableWrites("createRestriction", "updateRestriction", "splitRestriction", "deleteRestriction",
                   "restrictions", Restrictions,
                   Detail("restrictions", "it"), Detail("restrictions", "new"))

ContractWrites ==
  {Effect("createContract", {RowsOf("contracts")}, {Contracts}),
   Setting(Effect("updateContract", {It("contracts")}, {Contracts}), {Detail("contracts", "it")})}

(* A resource is written with its links to contracts, which are part of the *)
(* contracts' answers.                                                      *)
ResourceWrites ==
  {Effect("createResource", {RowsOf("resources"), It("contracts")}, {ResourceList}),
   Setting(Effect("updateResource", {It("resources"), It("contracts")}, {ResourceList}),
           {Detail("resources", "it")}),
   Removing(Effect("deleteResource", Both("resources") \cup {It("contracts")}, {ResourceList}),
            {Detail("resources", "it")})}

CollectionWrites ==
  LET list == {List("collections")} IN
  {Effect("createCollection", {RowsOf("collections")}, list),
   Setting(Effect("updateCollection", {It("collections")}, list), {Detail("collections", "it")}),
   Removing(Effect("deleteCollection", Both("collections"), list), {Detail("collections", "it")})}

GroupWrites ==
  LET list == {List("groups")} IN
  {Effect("createGroup", {RowsOf("groups")}, list),
   Setting(Effect("updateGroup", {It("groups")}, list), {Detail("groups", "it")}),
   Removing(Effect("deleteGroup", Both("groups"), list), {Detail("groups", "it")})}

(* A change of password revokes the user's sessions. *)
UserWrites ==
  LET list == {List("users")}
      edited == {It("users"), OwnerNames, It("sessions")}
  IN {Effect("createUser", {RowsOf("users")}, list),
      Effect("registerUser", {RowsOf("users")}, list),
      Setting(Effect("updateUser", edited, list), {Detail("users", "it")}),
      Setting(Effect("updateMe", edited, list), {Me, Detail("users", "it")}),
      Removing(Effect("deleteUser", Both("users") \cup Both("sessions"), list),
               {Detail("users", "it"), UserSessions})}

BatchUserWrites_OnSuccess ==
  {Effect("batchUpsertUsers", Both("users") \cup {OwnerNames}, {<<"users">>}),
   Effect("bulkUpdateUsers", {It("users"), OwnerNames}, {<<"users">>})}
BatchUserWrites ==
  {[e EXCEPT !.settled = TRUE] : e \in
     {Effect("batchUpsertUsers", Both("users") \cup {OwnerNames}, {<<"users">>}),
      Effect("bulkUpdateUsers", {It("users"), OwnerNames}, {<<"users">>})}}

SessionWrites ==
  {Effect("revokeMySession", {It("sessions")}, {MySessions}),
   Effect("logoutOtherSessions", Both("sessions"), {MySessions}),
   Effect("revokeUserSession", {It("sessions")}, {UserSessions}),
   Effect("revokeAllUserSessions", Both("sessions"), {UserSessions})}

TemplateWrites ==
  {[Effect(name, {It("templates")}, {}) EXCEPT !.merges = {Templates}] :
     name \in {"saveEmailTemplate", "resetEmailTemplate"}}

OutlookWrites ==
  {Effect("runOutlookSync", {It("outlook"), Occupancy} \cup Both("reservations"),
          {Outlook, Reservations})}

(* login, verifyOtp and register of useAuth *)
AuthWrites == {Effect("login", {It("viewer"), RowsOf("sessions")}, {Everything})}

Mutations ==
  UNION {ReservationWrites, BlockWrites, RestrictionWrites, ContractWrites, ResourceWrites,
         CollectionWrites, GroupWrites, UserWrites, BatchUserWrites, SessionWrites, TemplateWrites,
         OutlookWrites, AuthWrites}

-----------------------------------------------------------------------------
VARIABLES
  key,       \* the key that is watched
  mounted,   \* whether a page uses it
  entry,     \* its cache entry
  fetch,     \* its request in flight
  server,    \* the writes so far to what it shows
  run,       \* the mutations in flight
  settled    \* history: the mutations that told their caller they had written,
             \* but for those that were overtaken

cacheVars == <<key, mounted, entry, fetch, server, run, settled>>

Writes == 1..MaxWrites
NoEntry == [data |-> Absent, stale |-> FALSE]
NoFetch == [pc |-> "none", answer |-> {}]
NoRun == [pc |-> "idle", m |-> Absent, write |-> 0, answer |-> {}]

CacheTypeOK ==
  /\ key \in Keys /\ mounted \in BOOLEAN
  /\ entry \in [data : (SUBSET Writes) \cup {Absent}, stale : BOOLEAN]
  /\ fetch \in [pc : {"none", "sent", "answered"}, answer : SUBSET Writes]
  /\ server \in SUBSET Writes
  /\ run \in [Slots -> [pc : {"idle", "sent", "written"}, m : Mutations \cup {Absent},
                        write : 0..MaxWrites, answer : SUBSET Writes]]
  /\ settled \subseteq [m : Mutations, write : Writes, ok : BOOLEAN]

CacheInit ==
  /\ key \in Keys
  /\ mounted = FALSE /\ entry = NoEntry /\ fetch = NoFetch
  /\ server = {} /\ settled = {}
  /\ run = [r \in Slots |-> NoRun]

Has(e) == e.data # Absent
Request == [pc |-> "sent", answer |-> {}]

(* A page that uses the query is opened or closed, or the window is focused. *)
NeedsFetch == fetch.pc = "none" /\ (~Has(entry) \/ entry.stale)

Mount ==
  /\ ~mounted
  /\ mounted' = TRUE
  /\ fetch' = IF NeedsFetch THEN Request ELSE fetch
  /\ UNCHANGED <<key, entry, server, run, settled>>

Unmount ==
  /\ mounted
  /\ mounted' = FALSE
  /\ UNCHANGED <<key, entry, fetch, server, run, settled>>

Focus ==
  /\ mounted /\ NeedsFetch
  /\ fetch' = Request
  /\ UNCHANGED <<key, mounted, entry, server, run, settled>>

(* staleTime passes; an unused entry is collected. *)
GoStale ==
  /\ Has(entry) /\ ~entry.stale
  /\ entry' = [entry EXCEPT !.stale = TRUE]
  /\ UNCHANGED <<key, mounted, fetch, server, run, settled>>

Collect ==
  /\ ~mounted /\ fetch.pc = "none" /\ Has(entry)
  /\ entry' = NoEntry
  /\ UNCHANGED <<key, mounted, fetch, server, run, settled>>

Answer ==
  /\ fetch.pc = "sent"
  /\ fetch' = [pc |-> "answered", answer |-> server]
  /\ UNCHANGED <<key, mounted, entry, server, run, settled>>

FetchDone ==
  /\ fetch.pc = "answered"
  /\ entry' = [data |-> fetch.answer, stale |-> key \in NeverFresh]
  /\ fetch' = NoFetch
  /\ UNCHANGED <<key, mounted, server, run, settled>>

FetchFails ==
  /\ fetch.pc # "none"
  /\ fetch' = NoFetch
  /\ UNCHANGED <<key, mounted, entry, server, run, settled>>

-----------------------------------------------------------------------------
(* Somebody else changes what the key shows. *)
OthersWrite ==
  /\ Cardinality(server) < MaxWrites
  /\ server' = server \cup {Cardinality(server) + 1}
  /\ UNCHANGED <<key, mounted, entry, fetch, run, settled>>

Touched(m) == \E row \in m.writes : <<key, row>> \in Reads

(* What a settled mutation does to the entry *)
Invalidated(m) == \E p \in m.invalidates : IsPrefix(p, key)

(* The other mutations neither change what the key shows nor its entry. *)
Concerned ==
  [k \in Keys |->
     {m \in Mutations : \/ \E row \in m.writes : <<k, row>> \in Reads
                        \/ \E p \in m.invalidates : IsPrefix(p, k)
                        \/ k \in UNION {m.sets, m.merges, m.removes}}]

Mutate(r, m) ==
  /\ run[r].pc = "idle"
  /\ run' = [run EXCEPT ![r] = [pc |-> "sent", m |-> m, write |-> 0, answer |-> {}]]
  /\ UNCHANGED <<key, mounted, entry, fetch, server, settled>>

Commit(r) ==
  LET n == Cardinality(server) + 1
      written == Touched(run[r].m)
  IN /\ run[r].pc = "sent"
     /\ written => n <= MaxWrites
     /\ server' = IF written THEN server \cup {n} ELSE server
     /\ run' = [run EXCEPT ![r].pc = "written", ![r].write = IF written THEN n ELSE 0,
                           ![r].answer = server']
     /\ UNCHANGED <<key, mounted, entry, fetch, settled>>

(* setQueryData on what there is; the list of templates is patched in place *)
EntrySet(m, write, answer, e) ==
  CASE key \in m.sets -> [data |-> answer, stale |-> key \in NeverFresh]
    [] key \in m.merges /\ Has(e) -> [data |-> e.data \cup ({write} \ {0}), stale |-> FALSE]
    [] key \in m.removes -> NoEntry
    [] OTHER -> e
EntryMarked(invalid, e) ==
  IF invalid /\ Has(e) THEN [e EXCEPT !.stale = TRUE] ELSE e
FetchAfter(removed, invalid, e) ==
  CASE removed -> NoFetch
    [] ~removed /\ invalid /\ mounted /\ (Has(e) \/ fetch.pc = "none") -> Request
    [] OTHER -> fetch

(* What settles is noted until an older answer has overtaken it: that of a *)
(* fetch which is not restarted, or of another mutation which is set later. *)
Note(r, ok) ==
  LET s == run[r]
      new == IF s.write = 0 THEN {} ELSE {[m |-> s.m, write |-> s.write, ok |-> ok]}
  IN {x \in settled : key \in s.m.sets => x.write \in s.answer}
       \cup {x \in new : fetch'.pc = "answered" => x.write \in fetch'.answer}

Settle(r) ==
  LET m == run[r].m
      set == EntrySet(m, run[r].write, run[r].answer, entry)
  IN /\ run[r].pc = "written"
     /\ entry' = EntryMarked(Invalidated(m), set)
     /\ fetch' = FetchAfter(key \in m.removes, Invalidated(m), set)
     /\ run' = [run EXCEPT ![r] = NoRun]
     /\ settled' = Note(r, TRUE)
     /\ UNCHANGED <<key, mounted, server>>

(* The mutation fails: refused, or written (partly, for several users) and *)
(* not answered.                                                           *)
SettleError(r) ==
  LET m == run[r].m
      invalid == m.settled /\ Invalidated(m)
  IN /\ run[r].pc # "idle"
     /\ entry' = EntryMarked(invalid, entry)
     /\ fetch' = FetchAfter(FALSE, invalid, entry)
     /\ run' = [run EXCEPT ![r] = NoRun]
     /\ settled' = IF m \in BatchUserWrites THEN Note(r, FALSE) ELSE settled
     /\ UNCHANGED <<key, mounted, server>>

(* main.tsx: a refreshed token invalidates everything; logout clears it. *)
TokenRefreshed ==
  /\ entry' = EntryMarked(TRUE, entry)
  /\ fetch' = FetchAfter(FALSE, TRUE, entry)
  /\ UNCHANGED <<key, mounted, server, run, settled>>

Logout ==
  /\ entry' = NoEntry
  /\ fetch' = NoFetch
  /\ UNCHANGED <<key, mounted, server, run, settled>>

CacheNext ==
  \/ Mount \/ Unmount \/ Focus \/ GoStale \/ Collect \/ Answer \/ FetchDone \/ FetchFails
  \/ OthersWrite \/ TokenRefreshed \/ Logout
  \/ \E r \in Slots :
       \/ \E m \in Concerned[key] : Mutate(r, m)
       \/ Commit(r) \/ Settle(r) \/ SettleError(r)

CacheSpec == CacheInit /\ [][CacheNext]_cacheVars

-----------------------------------------------------------------------------
(* Where an answer that a hook's mutation changes stays cached as it was,   *)
(* until its staleTime is over.                                            *)
Names(mutations) == {m.name : m \in mutations}
KnownLags ==
  LET reservationMutations == Names(ReservationWrites) \cup {"runOutlookSync"}
      userMutations == {"updateUser", "batchUpsertUsers", "bulkUpdateUsers"}
      listedWithOwners == KeysOf(ReservationQueries) \cup {Search}
      counted == ResourceWrites \cup GroupWrites \cup UserWrites \cup BatchUserWrites
  IN \* the search box and the statistics have keys of their own, which no hook invalidates
     (reservationMutations \X {Search, Stats})
     \cup (Names(counted) \X {Stats})
     \* a contract's list of resources, after the resource was edited
     \cup (Names(ResourceWrites) \X KeysOf(ContractQueries))
     \* which blocks are free, after invitations were imported
     \cup ({"runOutlookSync"} \X KeysOf(BlockQueries))
     \* the owner's name and address beside a reservation
     \cup ((userMutations \cup {"updateMe"}) \X listedWithOwners)
     \* one's own account, edited on the page of users
     \cup (userMutations \X {Me}) \cup {<<"deleteUser", Me>>}
     \* the two lists of one's own sessions, and a password's effect on them
     \cup ({"revokeMySession", "logoutOtherSessions"} \X {UserSessions})
     \cup ({"revokeUserSession", "revokeAllUserSessions", "deleteUser"} \X {MySessions})
     \cup ({"updateUser", "updateMe"} \X {MySessions, UserSessions})

ShownAsFresh == Has(entry) /\ ~entry.stale
Lags(x) == x.write \notin entry.data /\ <<x.m.name, key>> \notin KnownLags

(* After a mutation has reported success, no entry is served as fresh that *)
(* lacks what it wrote, neither of its own domain nor of another one that  *)
(* shows the same rows, but for the lags listed above (the statistics lag  *)
(* behind every mutation of what they count) and for a write that an older *)
(* answer has overtaken (Note).                                            *)
SuccessIsShown == ShownAsFresh => \A x \in settled : x.ok => ~Lags(x)

(* A batch of users that failed for some has written others: the caller is *)
(* told of a failure and still the list of users and each user's details,  *)
(* which are not among the lags above, do not hide what was written.       *)
PartialBatchIsShown == ShownAsFresh => \A x \in settled : ~x.ok => ~Lags(x)
=============================================================================

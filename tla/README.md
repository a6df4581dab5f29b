# Kuutar: verification development

Kuutar is a room and equipment reservation service: a Rust server (axum, sqlx,
PostgreSQL) under `server/` and a React client under `client/`.  This directory
holds TLA+ models of it, TLC configurations that check them on small instances,
and TLAPS proofs for every value of the constants.

    tlc -config booking.cfg MCReservations      model-check an instance
    tlapm Reservations_proofs.tla               check the proofs

Paths below are relative to the repository; `reservations/db.rs` stands for
`server/src/domains/reservations/db.rs`, `ReservationForm.tsx` for the file of
that name under `client/src/`, and so on.

## 1. The system

| Part | State | Operations | Talks to |
|---|---|---|---|
| Reservations (`reservations/`) | `reservations`, `occurrences` | create, edit, cancel, split, delete, batch import, listing, conflict check | resources, blocks, restrictions, users (reads); notifications (spawned after a commit) |
| Reservable blocks (`reservable_blocks/`) | blocks and their occurrences | create, edit, split, delete | read by the blocks-only rule |
| Resources (`resources/`, `ResourceForm.tsx`) | flags, dates, durations, group lists, contracts | create, edit, delete | decides who sees, reserves and is confirmed |
| Restrictions (`restrictions/`) | closed times with exempt groups | create, edit, split, delete | read by create and edit |
| Sessions (`auth/db.rs`, `auth/routes.rs`, `auth/purge.rs`) | `refresh_tokens` | login, refresh, logout, revoke, list, daily purge | users (password reset, deletion) |
| One-time codes (`auth/`, `SignInForm.tsx`) | `otp_codes`, `otp_fails`, the dialog | request, verify, lockout | opens sessions |
| Outlook synchronisation (`outlook_sync/`) | `outlook_sync_log`, the mailbox, an advisory lock | poll, import, cancel, retry, set aside | writes reservations and occurrences directly |
| Browser session (`api/client.ts`, `useAuth.ts`) | tokens in `localStorage`, shared by the tabs | refresh before expiry, silently and on 401; sign in and out | sessions |
| Query cache (`hooks/use*.ts`) | cached answers by key | fetch, mutate, invalidate, set, remove | every page |
| Series (`rruleUtils.ts`, `series.ts`, `RecurrenceFields.tsx`) | a rule with exceptions, its rows | open, edit, regenerate, detach | forms of reservations, blocks, restrictions |
| Reservation form, calendar | fields and checks on their way; place in the URL, remembered views | the user's steps, late answers | hooks, series |
| Users and their batches (`batch-register.tsx`, bulk update) | accounts | register, update, move, delete | groups |
| Contracts and printing (`ContractForm.tsx`, `batch-print.tsx`) | documents per language in an object store | upload, store, build a print | linked to resources |
| Notifications, groups, collections, statistics | their tables | CRUD, rendering, aggregation | |

The server keeps no locks and almost no memory of its own: requests meet in
PostgreSQL, at READ COMMITTED, where every statement outside a transaction
commits on its own.  The client keeps answers that were true when they were
read.  The hard behaviour is therefore that of steps *each of which is correct
alone*:

* a handler reads (`find_by_id`), decides, and then writes in another
  transaction, whose WHERE clause repeats only part of what was decided on;
* the blocks-only rule is the one place that takes a lock (`SELECT ... FOR UPDATE`
  on the resource rows) to make a check and an insert one step;
* `split` relies on row locks and on counts in its own snapshot;
* refreshing a session, taking a one-time code and counting failures are several
  statements with nothing in the database between them;
* the Outlook importer and an admin's batch import write the same tables without
  any of the handlers' checks;
* a request can die between any two statements, an answer can be lost;
* several tabs share one refresh token; a form is filled in while the lists it
  depends on are fetched again; a batch is prepared from a list that others change.

What makes each part correct:

* Reservations: two bookings that the rule has checked never overlap; a
  reservation is never half cancelled; a deleted one stays as it is; a split
  neither loses nor doubles an occurrence; what came from Outlook is changed by
  the importer alone; every request is answered.
* Sessions: one token can be used at a time, whoever replays what; a session
  ends when it must and does not come back; forgetting old rows does not blind
  the detection of replays.  In the browser, several tabs keep one session alive.
* One-time codes: one code opens one session; five failures lock, for a while.
* Outlook: at-least-once delivery in any order has the effect of the newest
  message; every message is eventually dealt with or set aside.
* Client: what is shown is what was saved, what is submitted is what was checked.

`PROJECT.json` lists the hazards with their lines and the properties that would
notice them going wrong.

## 2. The modules

| Module | Models | |
|---|---|---|
| `Reservations` | the reservation handlers and every other writer of their tables | section 3 |
| `BlockLedger` | what the blocks-only rule promises, as a one-variable specification | implemented by `Reservations` |
| `Reservations_proofs` | theorems about `Reservations` | section 12 |
| `Sessions` | refresh tokens, sessions, password reset, user deletion, purge | section 4 |
| `Browser` | the tabs of a browser, composed with `Sessions` | section 5 |
| `Browser_proofs` | theorems about `Sessions` (part 1) and `Browser` (part 2) | section 12 |
| `SignIn`, `SignIn_proofs` | one-time codes, lockout and the sign-in dialog | section 6 |
| `Outlook`, `Outlook_proofs` | mailbox, pollers, importer, log | section 7 |
| `QueryCache` | every query and mutation hook of the client | section 8 |
| `Series`, `Series_proofs` | recurrence rules, their form, detaching | section 9 |
| `ReservationForm`, `ReservationForm_proofs` | the form that makes and edits a reservation | section 10 |
| `CalendarLayout`, `Calendar` | drawing of a day (pure), and the calendar page | section 10 |
| `Client_proofs` | theorems about `Calendar` and about `QueryCache` | section 12 |
| `ResourceSettings` | the settings of a resource and the access they give | section 11 |
| `UserBatch` | import and bulk update of users | section 11 |
| `Documents` | contract documents and their print | section 11 |
| `Admin_proofs` | theorems about the three modules above | section 12 |
| `MCReservations`, `MCSessions`, `MCBrowser`, `MCSignIn`, `MCOutlook`, `MCSeries`, `MCReservationForm`, `MCClient`, `MCAdmin` | instances for TLC: data, symmetry | section 13 |

Two modules compose others: `Browser` EXTENDS
`Sessions`, and each of its steps is a step of `Sessions` or leaves it alone;
`Calendar` EXTENDS `CalendarLayout`.  `Reservations` implements `BlockLedger`.
`MCAdmin` runs three independent pages, one at a time, `MCClient` the calendar or the
query cache.

Operators named `X_Variant` before an operator `X` are changed forms of `X`, the
way a plausible bug would change it; nothing uses them in the specification.
With one of them in the place of `X`, TLC reports the property they are listed
with in `PROJECT.json`, which shows that the property depends on that line of
code.

## 3. Reservations

**State.** `row` is the `reservations` table (owner, source, status,
`cancelled_by`, whether it has an rrule, deleted), `places` the `occurrences`
table as a set of places per reservation, a place being a resource with an
interval.  `blocks` is the set of places that are occurrences of a block,
`blocksOnly` the resources with the flag.  `req[q]` is the local state of the
request in slot `q`: its program counter, the reservation in its path, the
payload, what it read, and the row locks it holds.  `protected` is a history
variable: the places of a reservation that its own booking transaction checked
under the lock, as long as nothing has bypassed the check since.

**Steps.** A request starts with all its reads and validations (`CreateStart`,
`UpdateStart`, `CancelStart`, `SplitStart`, `DeleteStart`): they write nothing,
and what is read in them is as of one instant.  Then, in steps of their own:

| Action | Code |
|---|---|
| `BlockCheck` | `validate_block_only_occurrences`: takes the FOR UPDATE locks and checks, or fails |
| `CreateCommit`, `UpdateCommit`, `UpdateNotFound` | the rest of `db::create`, `db::update` up to its commit or rollback |
| `CancelCommit`, `DeleteCommit` | one UPDATE statement |
| `SplitCopy`, `SplitMove`, `SplitCommit` | the three statements of `db::split` |
| `Abort` | the process, the connection or PostgreSQL ends the transaction |
| `BatchImport`, `OutlookRequest`, `OutlookCancel` | writers that check nothing |
| `EditResource`, `EditBlock` | an admin changes what the rule reads |

Row locks appear as guards: an insert waits for a FOR UPDATE lock on its
resource (`MayInsert`, through the foreign key), a check waits for the locks of
other checks (`LockFree`), a replacement or a move of occurrences waits for
those another split has moved (`NotMoving`).

**Abstractions.** The access rules (visibility, group access, restrictions,
durations, date limit, auto-confirmation, recurrence) are constants, decided
when the request starts.  Texts, contacts, contracts, `updated_at` and mail are
left out, and with the texts the one edit of an Outlook reservation that the code
lets through: an administrator's that has only `admin_notes`
(`reservations/routes.rs:421-432`), which writes those and `updated_at`.  The FOR UPDATE locks of one check are taken together (the code takes
them in the order of their ids, so they cannot deadlock with each other), and
the queries of a check are one step: while the lock is held nobody else can add
a checked booking, so it does not matter for the properties when each query runs.
The statements of an edit before its commit are taken with the commit, which
leaves out the lock cycle between an edit and a split of the same reservation;
PostgreSQL breaks it by aborting one of them, and `Abort` may happen to any
request at any time.  Occurrences are known by place and not by id; a split
goes on when an edit has replaced its occurrences by equal ones, where the code
would refuse, so the model allows a little more than the code.

**Properties.**

* `ProtectedDisjoint`: two live bookings whose places were checked by their own
  transactions never overlap, whatever admins, imports and other requests do.
* `ImplementsLedger`: with `held` mapped to the protected places of live
  reservations, every step of the handlers is a step of `BlockLedger`, so what a
  booking comes to hold is free of all others at the instant of its *commit*, not
  only of its check.
* `ActiveHasNoCanceller`, `CancellerIsKept`: the cancellation columns go with the
  cancelled status, and the first of concurrent cancellations is the one recorded.
* `DeletedIsFinal`, `OutlookOwnsItsRows`: what stale requests may not do to rows
  that were deleted or that Outlook owns.
* `SplitConserves`: the two halves of a split are disjoint and together what the
  reservation had when the split committed.
* `ReopenedByAdminOrStaleEdit`: the only ways back from a cancellation.
* `RequestsFinish`: every request is answered (liveness).

**Fairness.** `FairSpec` assumes strong fairness of `Continue(q)` for each
request: the runtime polls every task, and PostgreSQL grants a row lock in the
order in which it is asked for, so a request whose lock becomes free again and
again is eventually served.  Arrivals, imports and admin actions are not fair:
nobody has to send them.

## 4. Sessions

**State.** `token[t]` is a row of `refresh_tokens`; a row is unused, valid
(`revoked_at` is null), revoked, or purged.  `req[q]` is a request between two
of its statements: *issuing* (the old token is consumed or the password
verified, the new token not yet inserted), *rejected* (consumption failed, the
reuse check not yet run), *resetting* (the password is stored, the sessions not
yet revoked).  `now` is the clock; `deleted` the deleted users; `opened` and
`ended` are history variables.

**Actions.** `Login`, `Refresh`, `Issue`, `IssueFails`, `ReuseCheck`, `Logout`,
`RevokeSession(s)`, `ResetPassword`, `ResetRevokes`, `DeleteUser`, `Purge`,
`Tick`: one statement each.  `Refresh` may present any token ever issued, any
number of times: a tab that has lost a race, a copy of the browser's storage or
a retried request look the same to the server.

**Properties.** `ChainNeverForks` (one valid token or one request about to issue
it, per session), `SessionIsBounded` (`SESSION_MAX_DAYS` from the login, however
often it is refreshed), `PurgeForgetsNoLiveChain`, `OverIsOver` (a session that
has lost its chain is never resumed).

Not modelled: access tokens stay valid until they expire, minutes after a
session has ended; passwords and device details.


## 5. The browser

**State.** `Browser` adds to the server of section 4 what the tabs of one browser
hold: `storage` (`localStorage`: the tokens and `token_expires_at`), `call[q]`
(a call to refresh, login or logout: sent, served, answered, with the token it
read when it started), `page[p]` (the `fetchMe` request of a tab).  Two history
variables: `disturbed` counts failed and lost calls, slow calls, a retry of `fetchMe`
that is under way while time passes, sign-outs, sessions ended elsewhere, sign-ins
over a session or while a call is under way, and retries of `fetchMe` that go out with
nothing stored; `trouble` notes that the answer to a consumed token was lost, or a call
was slow.  The slots are pairs of a tab and a role: `refreshPromise` shares one call
among a tab's requests, `useSilentRefresh` starts its own, and the user signs in and out.

**Actions.** `SilentRefresh`, `OtherRequest` and `OpenPage` start a call from what
is stored at that moment; `Arrives`, `ServerIssues`, `ServerRejects`, `ServerFails`,
`NetworkFails` are the server's statements and the network; `SettleSilent`,
`SettleShared` and `SettleUser` act on the storage as it is *then*.
`PageAnswered`, `PageRefused` and `PageRefusedAgain` are the 401 retry of
`authMiddleware`.  `EndedElsewhere` is every way a session ends outside the
browser, `ClockTicks` the time.

**Properties.** `ConcurrencyKeepsSignedIn`: however shared and silent refreshes of
the tabs overtake each other, when all is quiet the browser holds the usable token.
It speaks of runs without disturbances, in which sessions still end by themselves
and the user signs in again.  The race that `client.ts:62-66` is written for is in
them: a refusal may be read before the winner's new token is stored, and clears the
storage that the winner then fills.  One form of it is excepted, the retry with
nothing stored, because there the code does sign the user out (section 14).
`ReplayMeansTrouble`: the server sees a replay outside the grace period only
after a lost answer or a slow call.

## 6. Signing in with a code

**State.** `dialog[t]` is what a tab's dialog shows, `call[c]` how far the server
is with a call and whether the form that sent it is still there, `fails` and
`codes` the tables, `inbox` the codes mailed.  Time is kept as the ages of
failures and codes; `Tick` makes all one unit older.  History are `cut` (a
request stopped between its two statements) and, of each code, how often it was taken
(`used`) and how many calls had read it as unused when it was first taken (`rivals`).

**Actions.** One statement of `auth/db.rs` each, none of which is in a transaction:
`RequestArrives`, `InvalidateCodes`, `InsertCode`, `MailCode` for a request;
`SelectCode`, `RecordFail`, `CountFails`, `MarkUsed`, `ClearFails` for a
verification; `Breaks` at any point; and the dialog's `Open`, `Close`,
`SwitchMode`, `ChangeAddress`, `SubmitRequest`, `SubmitVerify`, `SubmitPassword`.

**Properties.** `LockoutBounded` (parallel guesses exceed the limit by no more than
the calls under way), `NewestCodeWorks`, `OnlyRivalsShareACode` (a code is taken
again only by calls that had read it as unused before it was first taken), and `LockEnds` (liveness: a refused
attempt does not prolong a lock).  *Fairness:* only that time passes.

## 7. Outlook

**State.** `inbox` and `sent` are the mailbox, `row` the reservation of one
calendar event, known by the message it shows, `deleted` whether it was deleted
in Kuutar, `log` the `outlook_sync_log`, `lock` the run whose connection holds
the advisory lock, `leaked` whether that connection went back to the pool with
it, `run[r]` how far a cycle is, `poison` a message that always fails.
`settled`, `unknown` and `failed` are history.

**Actions.** `Deliver`, `Delete`; of a cycle `Lock`, `ListUnread`,
`PreviousAttempts`, `Import`, `Insert`, `WriteLog`, `MarkProcessed`, `Finish`;
of what may go wrong `ImportFails`, `MarkFails`, `CycleFails`, `Crash`, `Dropped`
(the future of an admin's request is dropped and its connection keeps the lock),
`ConnectionLost` (the lock goes while the cycle runs on), `ConnectionCloses`.
What an import does to a reservation that requests are editing is in
`Reservations`.

**Properties.** `ShowsNewest` and `NoSilentLoss` for safety; `InboxDrains`: every
message leaves the inbox once faults stop.  *Fairness:* weak fairness of each
cycle, since the loop polls for ever, and of `ConnectionCloses`, since the pool
gives every connection a maximal lifetime.

## 8. The query cache

**State.** The entries of the cache do not influence each other, so the module
watches one key, any of them.  An answer is the set of writes it reflects.
`entry` is what is cached, `fetch` the request for it, `run` the mutations in
flight, `settled` (history) those reported to the user, until
an older answer overtakes them.  `Mutations` holds, for
every mutation hook, its name, what it writes on the server and what it
invalidates, sets and removes; `ReservationQueries` and the like hold a pair of a
key and a row for every row that the answer of a query hook shows: the names of
owners beside reservations and in the search, and for the statistics which
reservations, resources, groups and users there are and what they are.  The query
of `batch-print.tsx`, which has no hook of its own, is `BatchPrint`.

**Properties.** `SuccessIsShown`: after a mutation reported success, no entry is
served as fresh without what it wrote, of whichever domain.  `PartialBatchIsShown`:
the same when a batch failed in part.  Both except for what an older answer overtook
(that of a first fetch, which an invalidation does not restart, or that of another
mutation, which is set when it comes) and for `KnownLags`, the pairs of
a mutation and a key where the hooks do leave an outdated answer until its
`staleTime` is over; the list is the result of the run, and it is exact enough
that leaving out an invalidation of any other pair violates the property.  It holds
the search box and the statistics after every mutation of reservations, the
statistics also after those of resources, groups and users (batches included), the
owner's name beside a reservation after an edit of the user, a contract's list of
resources after an edit of the resource, the blocks after an import from Outlook, and
one's own account and sessions after they were changed on another page.

## 9. Series

`Series` follows one series through its forms.  Instants and wall-clock readings
are different numbers (`ToFloating`, `FromFloating`), the clock is put forward
and back once, and a rule is a record of the options that decide on days; the
expansion by the rrule library is modelled from how it is used (`external` in
the map).  `OpenEdit`, `Edit`, `Save` and `Detach` are the whole handlers of
`RecurrenceFields.tsx` and `series.ts`.

A stored rule has an end; its options are those that decide on days (`RuleOptions`),
`interval` standing for all that the form cannot express.  A rule is `zoned`, or
was stored by an earlier version, which kept the time of UTC (`Legacy`).

**Properties.** `OpenedAsSaved`: opening a saved series and saving it unchanged
regenerates it, across clock changes and for rules written by the form, by the
API or by a detachment.  It says nothing of rules that the form does not follow
(`Followed`: of an earlier version, with an hour that the clock skips, yearly on a
day of every month) and of occurrences during which the clock changes, whose
length is their own.  `DetachedStaysAway`: a detached occurrence does not
return while times, pattern and exceptions are left alone, unless its hour was
skipped.  `TickedIsSaved`: what is ticked in the list of dates is what is saved, but
for an hour that is skipped or that the clock has twice.  `SameWallClock`: every
occurrence starts and ends at the form's wall-clock times, unless the clock skips
them.  The instance reaches every one of these exceptions; section 14 says what
the code does there.

## 10. The reservation form and the calendar

`ReservationForm`: the fields, the three lists with `None` while they load, the
approval of contracts, the check for conflicts whose answer is awaited and
whether outdated ones are on their way.  Each action is a handler together with
the effects it causes; lists and checks are answered at any time in any order.
What the form knows of a resource it looks up in the loaded list (`Listed`): of one
that was hidden from the user after the reservation was made it knows no limits, no
blocks and no ban on series.
`ConflictsAreCurrent`, `OnlyReservableIds`, `ApprovedWhatApplies` and
`SubmitsReservable` say that what is submitted is what was checked, may be
reserved, was approved, and is a listed block or a range within the durations and
the last day of every listed resource.  Which of several blocks-only resources the
form takes the blocks of (the first selected) is left open.

`CalendarLayout` is pure: splitting rows by day, grouping what overlaps, placing
it in columns, and drawing it where the clock says (`Clock`, `DayOf`), which on one
night is changed: `Midnight`, `Morning` and the grid follow it, while overlaps are
decided by the instants.  `Calendar` is the page: the place in the URL, what
`sessionStorage` and `localStorage` remember (another tab writes the latter), the
fetched range and the days drawn.  `ShownOnItsDays` compares what each day draws
with a definition by quantifiers over all rows; `NothingHidden` says no block
covers another, in whatever order events are listed, but for blocks moved up from the
bottom of the grid and for the two passes of an hour that the clock has twice
(`PutBackBetween`); `NoDaySkipped` says paging
there and back leaves out no day and a change of view keeps the day in sight.

## 11. The administrators' pages

`ResourceSettings`: the form of several administrators, each opened on what its
cache had (`loaded`), sent (`sent`) and stored (`Commit`) later.  `SavedAsShown`:
what the form's summary (`Summary`) said when the last save was sent is what the
places that decide on access then do: listing, visibility check, group check,
confirmation; the durations never contradict each other.  Who may reserve is asked
of the signed-in only (`MayReserve`: both checks run for the user of the token); of visitors, whom the
sentence on a public resource names as well, it is not so (section 14).

`UserBatch`: `Parse` matches a file against the list as the browser knows it,
`Import` and `Apply` send one request per row, which run one by one (`Register`,
`Update`, `Refuse`) beside the steps of other administrators (`Others`), and
`Settle` reports.  `MovesOnlyAsked`: however late, a request does to the accounts
only what the page showed when it was sent.  Every row of a file has a contact and
every bulk update a group; a row without one sends no second request, and a change
of the language alone moves nobody.

`Documents`: a save uploads the files of the languages, collects their keys and
stores the contract; the print page builds a document for the language chosen.
An object in the store carries the language and the save it was uploaded for.
`StoredIsWhole`: a stored contract has exactly its titled languages; where a file was
picked for the save, its object is the one uploaded for that save and not one of an
earlier attempt or of another administrator, and elsewhere the document the form
held, whatever failed before.  `PrintedIsChosen`: the document on the page was built
for what its controls show, and in a language for which the contract has a document
it is the one the reservation form offers for approval, of the contract as the page
loaded it.  Which document a reserver did approve is recorded nowhere, so it is not
compared.

## 12. What is proved

TLAPS checks the following for all sets of users, resources, places, requests,
tokens, tabs, messages, groups, addresses, languages, contracts and items, every
lifetime and limit and every calendar, under the assumptions stated with the
constants: `ConstantsAssumption` (sets of distinct things), `TimesAssumption`
(`SessionMax <= PurgeAge`, which the code's 30 and 30 days satisfy with equality),
`NoneAssumption`, `BrowserAssumption` (a well network answers within half the
reuse grace), `SignInAssumption` (limits are positive, calls finitely many),
`OutlookAssumption`, `FormAssumption` (finitely many resources), `ClockAssumption`
(the clock of the calendar changes on one night, within its own day and before the
morning), `LayoutAssumption` and `CalendarAssumption` (no month is shorter than a week, the ranges offered
contain a day, a week and what fits a screen, today and tomorrow are in the
calendar, the server has finitely many items and each finitely many rows),
`QueryCacheAssumption`, `SettingsAssumption`, `ExistingAssumption`, `BatchAssumption`,
`DocumentsAssumption`, `SeriesAssumption` (the clock changes twice, forward first, and
not over midnight; the patterns stored are such as the form or rrule can hold).

**`Reservations_proofs`.** `TypeCorrect`; `Invariance`: `Spec => []Inv`.
`ProtectedDisjoint` is not inductive: a commit inserts what was checked some
steps before.  `Inv` adds what the commit relies on: `LocksDisjoint` (no resource
is locked by two requests), `CheckedIsFree` (what a request has checked under its
locks overlaps nothing held, and goes on doing so until it commits or gives up),
`HeldDisjoint`, `ProtectedRows` (protected places are among the places),
`RequestRows` (what a request knows of its row: it exists and is not Outlook's)
and `Named`.  `Exclusivity` (`ProtectedDisjoint`) follows; `LedgerImplemented`
maps each action to a `Book`, a `Release` or a stutter, a commit being a `Book`
because of `CheckedIsFree`; `DeletionIsFinal` and `OutlookRowsAreOutlooks` use
`RequestRows` and the WHERE clauses.  On top of `Inv`: `Unused` (a row not yet
inserted is empty); `CancellationInv` (every row is `Coherent`, and so is the row a
request is about to insert; an edit was begun by an admin or on a row that was not
cancelled), from which `NoCancellerWhenActive`, `FirstCancellerStays` and
`OnlyEditsReopen`; and `SplitInv` (the places a split has moved are still the
reservation's, and two splits of one reservation that have moved places have moved
different ones), from which `NothingIsSplitAway`.

**`Browser_proofs`, part 1, about `Sessions`.** `SessionInvariance`: every stored
token and every issuing request carries the start of its session, tokens expire
within the session's lifetime, purged rows are older than that, and the chain is
single.  Hence `Typed`, `NoFork`, `Bounded`, `PurgeIsSafe` and `NoRevival`.

**`Browser_proofs`, part 2, about `Browser`.** The server's steps are those of
`Sessions` (`SessionsInside`), so all of the above
holds of the browser.  `NoFalseAlarm` (`ReplayMeansTrouble`) rests on `BrowserInv`:
`CallFacts` (what each stage of a call knows), `Known` and `HeldFacts` (which
tokens storage and calls can hold), `StorageFollows` (a consumed token stays in
the storage only while the call that consumed it is under way) and
`PresentedSoon` (a token is presented again only within the grace period).

`StaysSignedIn` (`ConcurrencyKeepsSignedIn`) speaks of moments of rest; what holds
between them, as long as nothing was disturbed, is `CalmInv`.  A session hangs on
one thread: `NothingLost` (the usable token is stored, or a call holds its
successor), `OneCarrier` (at most one call has consumed a token whose successor is
not stored yet), `CalmCall` (the storage still has the token which that call
presented, and no call that was refused holds the stored one), `OvertakenByFresh`
(when a call finds another token than its own, that one is so fresh that it
outlives everything begun before), `RetryIsHarmless` (so a retry is never refused
while there are tokens to clear, unless it went out with nothing stored) and `LoginAlone`.

**`SignIn_proofs`.** `SignInInvariance`; from it `LockoutHolds` (`LockoutBounded`),
`NewestIsValid` (`NewestCodeWorks`) and `RivalsOnly` (`OnlyRivalsShareACode`).
`LockoutBounded` counts failures and guesses past the lock together, so that a
guess that fails only moves from one to the other; that time never raises the
count needs `YoungestLast` (failures stand in the order of their age: what the
window forgets is a prefix).  `OnlyRivalsShareACode` is not inductive: a code is
taken by a call that read it as unused before.  `TakersBounded` says of a code that
was taken that the times it was taken and the calls that still hold it (`Rivals`)
are together no more than held it when it was first taken, `Remembered` that a call
holds only codes that exist.

**`ReservationForm_proofs`.** `FormInvariance`; `ConflictsCurrent`, `ReservableOnly`
and `ApprovalCovers` are conjuncts of it (`ConflictsAreCurrent`, `OnlyReservableIds`,
`ApprovedWhatApplies`), which must hold together through every handler and its
effects: a list that arrives may drop resources, which changes what is approved,
what is checked and whether a series is allowed (`RecursWhereAllowed`).
`SentIsReservable` (`SubmitsReservable`) combines the last with the tests of the
submit handler; that the strictest of the durations bounds each resource's needs
`FiniteHasMax`, proved from the well-foundedness of `<`, for finitely many resources.

**`Client_proofs`, about `Calendar`.** `CalendarTyped`; `PagingSkipsNoDay` (`NoDaySkipped`) from facts
about the drawn calendar (`MonthIs`, `StartOfWeekIs`, `GridIs`, `ShownDays`): in which
month and week a day is, which days a view shows from a start, that the next start is
within or right behind them and the previous one leads back.  `EverythingOnItsDays`
(`ShownOnItsDays`): `FetchRangeCovers` (what is fetched covers the days shown),
`EventsAre` and `SegmentIs` (what the grouping and the splitting by day make of a
row) and `TailsStayOvernight`.

`NothingLiesHidden` (`NothingHidden`) is about the loops of `layoutDay`, for days with
any number of events.  The groups and columns are recursive functions of the number of
events done; that they are what their recursion says (`GroupsAre`, `ColumnsAre`) is
proved by building such a function step by step (`Accumulates`), and what holds of them
by climbing from each number to the next (`Climb`).  The two invariants of the loops:
`GroupsInOrder`, every group has ended when a later one begins and the next event of
the order is no earlier than any so far (only for that the events are sorted), and
`ColumnsInOrder`, in a column each event begins when all those before it have ended,
and every event has a column.  A step keeps them (`NextInOrder`, `NextInColumn`)
because the test of `layoutDay` is on the last event of a column and on all events of
the last group.  Hence two events in one column of the drawing follow each other by
`LayoutEnd` (`OneAfterTheOther`), and by `DrawnBelow` the grid draws the first no lower
than the second begins, one that ends at midnight and one drawn longer than it is
included.  That rests on the clock: `DayIs` says which day and time of day an instant
reads as, on either side of the change, so that only an event before the clock is put
back and one after it can be drawn at one time (`PutBackBetween`).

**`Client_proofs`, about `QueryCache`.** `HooksSeeToTheirKeys` is about the tables
alone: for every mutation and every key that shows a row it writes, the hook
invalidates, sets, patches or removes the key (`SeenTo`), or the pair is among the
`KnownLags`.  `CacheInv` carries this through the steps: `AnswerHas` (the answer of a
fetch under way reflects every settled mutation) and `Retained` (so does an entry that
is served as fresh), but for writes that were overtaken: a fetch had its answer
before it and was not restarted, or the older answer of another mutation was set later.
It is inductive because a hook invalidates after its mutation was written, and because
an invalidation restarts the fetch of a query that is in use.  `CacheIsTyped`,
`SuccessShows` (`SuccessIsShown`) and `PartialBatchShows` (`PartialBatchIsShown`)
follow, for any number of slots and of writes.

**`Series_proofs`.** First lemmas about the operators: which instant a reading stands
for and what it reads as (`ReadingOf`, `InstantOf`, `ReadAgain`), days and times of
day, the end of a day, where recurrences fall; then that a pattern read by
`readPattern` and written by `patternOptions` falls on the same days
(`WeeklyReadBack`, `MonthlyReadBack`, `YearlyReadBack`, `SameRecurrences`) and that a
rule's end comes back (`UntilIs`, `EndOfDayIs`).  `SeriesInvariance`: the rows are
those of the rule, of one length by the wall clock, and the rule holds only what
instants and ends of days read as (`FollowsRule` in `StoredOK`); the form holds
instants its inputs can show (`FormOK`); the detached days are exceptions of the
stored rule (`DetachedOK`), which the form still has while only its end was
changed (`FormKeeps`).  `OpensAsSaved` (`OpenedAsSaved`), `TickedIsKept`
(`TickedIsSaved`), `KeepsWallClock` (`SameWallClock`) and `DetachedIsGone`
(`DetachedStaysAway`) follow.  `DetachedStaysAway` needs both halves of the
invariant: that a save keeps the exceptions is of no use unless the detachment's
instant, read back by the form, names the same reading of the clock.

**`Outlook_proofs`.** `OutlookInvariance`; `NewestIsShown` and `NothingIsLost` from
it.  The strengthening says what the stages of a run have done: `NothingProcessed`
(while there is no reservation), `LogAccounted` (the attempts logged are failures that
happened) and `RunsOK` (what holds of the message a run is at, per stage).

**`Admin_proofs`.** `SettingsInvariance`: a form that is being sent holds
values the form may send, so what is stored was sent by one; `SummaryIsServed` is
the lemma that the summary of such values agrees with the four decisions;
`SummaryHolds` is `SavedAsShown`.  `OnlyAskedMoves` from `BatchInv`: every request in
flight is within what its batch promised.  `StoredWhole` from `DocInv` (each dialog
that uploads or saves holds, per language, a stored key or an object of that
language, uploaded for the save that runs) and `PrintedChosen` from `PrintInv` (a finished page was built for the key
and from the contract it names).

Every invariant and every action property of the passing runs is a theorem.  Only
model-checked is liveness (`RequestsFinish`, `LockEnds`, `InboxDrains`), which is out of
the prover's reach, as ENABLED is.

## 13. The runs

| Run | Instance | Shows |
|---|---|---|
| `booking` | a user, an admin, one room with two overlapping blocks, two reservations, two requests; create, edit, cancel, switching of blocks_only | type correctness, `ProtectedDisjoint`, the refinement of the ledger |
| `lifecycle` | the same people; edit, cancel, split, delete, import, Outlook, abort on reservations of two occurrences | the coherence properties |
| `liveness` | two rooms, one of them blocks-only; create, split, cancel, changing blocks | `RequestsFinish` |
| `sessions` | one account and session, four tokens, two requests; tokens live 2 units, sessions 4, grace 1, purge after 4, clock to 6 | the session invariants and `OverIsOver` |
| `browser` | two tabs, one with all three roles, two sessions, three tokens, one disturbance; tokens live 3, sessions 5, grace 2, clock to 4 (426,000 states) | section 5 |
| `signin` | two tabs, two calls, lock after 1 failure for 1 unit, codes of 1 unit, two codes (3.4 million) | `NewestCodeWorks`, `OnlyRivalsShareACode` |
| `lock` | one dialog, two calls, lock after 2 failures for 2 units, codes of 2 units, two codes (967,000) | `LockoutBounded`, `LockEnds` |
| `outlook` | two pollers; an invite, its update, its cancellation; 2 attempts, 2 messages listed at a time, one fault (367,000) | section 7 |
| `series` | a year of 59 days of 12 units with both clock changes, starts around them, patterns of every frequency, two edits and two saves (102,000) | section 9 |
| `form` | a free room, a blocks-only sauna, a workshop without series, reservable up to a last day, and not always reservable or listed; two contracts, one block, times 0 to 2 (1.3 million) | section 10, the form |
| `client` | calendar: months of 6, 3 and 4 days, weeks of 3; every set of up to three of twelve items; the clock is put back on the first night of the second month (76,000); cache: any key, a mutation at a time and two writes, other clients and fetches in between (1.2 million) | sections 8 and 10, the calendar |
| `admin` | settings: two administrators, two groups, three stored resources, one change by an administrator; users: two addresses, three accounts, two batches, or one beside two steps of others; documents: two languages, three objects, two saves, two administrators (1.5 million) | section 11 |

*Bounds.* Most properties are about pairs: two requests that interleave, two
reservations that overlap, two halves of a split, two tokens of a session, two
tabs, two administrators.  Two of each is what it takes to violate them, and the
changed forms of the operators do violate them within these bounds.  A request
that needs a new row starts only while one is left (`SpareRow`), the only bound
in the guards of `Reservations`.  In `Sessions` and `Browser` the supply of tokens
and `Horizon` bound the run: tokens suffice for a login, rotations and the replay
of an old token, and the clock runs past the end of what is waited for.
`MaxDisturbances`, `MaxFaults`, `MaxCodes`, `MaxWrites`, `MaxEdits`, `MaxSaves`,
`MaxMoves`, `MaxChanges`, `MaxBatches`, `MaxOthers` and `MaxObjects` bound what is
named; each is large enough for a step, something in its way, and a step after.
The calendar's small months and weeks keep the proportions that matter (a month
shorter than a week and a day, weeks across two months, days that the month grid
shows of its neighbours).  The proofs need none of these bounds.

Two calls verify one code at once only when two tabs do (a dialog waits for its
answer), which the run `signin` has; the lock is counted over two failures, which
`lock` has.  Both together would be too large, and neither needs the other: the
failures do not depend on the code that is taken.

In the run `admin` the three pages share no variable, so a behaviour is one of a
single page and the state spaces add up; so it is with the two parts of `client`.

*Deadlock* is not checked: when the rows, tokens, steps or time of the instance
are used up and everything is answered, nothing has to happen.  That no request is
stuck is `RequestsFinish`; that no message is, `InboxDrains`.

*Symmetry* is used in runs that check no liveness.

*Fairness.* `FairSpec` of `Reservations` assumes strong fairness of `Continue(q)`
for each request: the runtime polls every task, and PostgreSQL grants a row lock in
the order in which it is asked for, so a request whose lock becomes free again and
again is eventually served.  Sections 6 and 7 state what `SignIn` and `Outlook`
assume.  Arrivals, users' steps, imports and admin actions are never fair: nobody
has to take them.

## 14. Where the code and its comments differ, and what it does in corners

The models do all of this, but for what section 15 leaves out; where a property makes an
exception for it, the property says so by name, as do the sections above.

*Reservations*

* `reservations/routes.rs:454` says only admins can reopen a cancelled
  reservation.  The status is tested on the row read at the start, and the UPDATE
  (`reservations/db.rs:304`) tests `deleted_at` only: an owner's edit that overlaps
  a cancellation reopens the reservation.
* `reservations/db.rs:896` says two concurrent requests cannot both book the same
  block.  An edit without occurrences is not checked (`db.rs:267`); when it reopens a
  reservation as above, the block may have been booked again.
* `reservations/routes.rs:461` says an edit needs re-approval unless every resource
  auto-confirms.  For an edit without occurrences that is decided from occurrences
  another edit may replace before the UPDATE.
* `reservations/db.rs:420` refuses to split off every occurrence; two concurrent
  splits do so together.
* `reservations/db.rs:354` says the split-off reservation is a copy of the original
  in every way but its rule.  A cancellation or deletion that commits between the
  copy and the commit reaches the original only.

*Sessions and the browser*

* `users/routes.rs:173` says a password reset ends all of the user's sessions; one
  between the two statements of a refresh (`auth/routes.rs:128`, `:136`) survives.
* `useAuth.ts:92` says transient failures must not log the user out.  When a request
  is retried after a 401 and the shared refresh fails, the tokens are cleared.
* `useAuth.ts` clears the tokens when the retry of `fetchMe` is refused, whatever is
  stored by then: the refusal that a session is over, coming after the user has signed
  in again in another tab, signs the user out (`client.ts:66` takes the tokens
  of the new session for those of a refresh).
* `client.ts:62` says that a refused refresh may mean that another call has consumed
  the token and stored the new one, and looks whether the storage has changed.  The
  answer that consumed it may still be on its way: a refused call then clears the tokens
  of a session that lives.  When that answer comes it stores the new ones, and all is
  well again.  But of two refused calls the second takes the empty storage for a rotation;
  if it was `fetchMe` that asked, its retry has nothing to send, is
  refused, and clears the new tokens if they have come meanwhile.  This one course
  counts as a disturbance in `ConcurrencyKeepsSignedIn`.

*Signing in*

* An SMTP or database failure after the old codes were invalidated leaves no code
  that works; mails that arrive out of order leave the last one's code dead.
* The address in "code sent to" may be another than the one the code went to; a
  lock banner stays after a change of address; the late answer to a verification
  closes a dialog that has been opened again.

*Outlook*

* A cancellation, or an update without resources, that is processed before its
  invite is ignored, and the invite is then imported as confirmed.
* The log of a message may be rewound, and "ignored" overwrite "imported", when two
  pollers meet after a lost connection.
* An imported update of a cancelled row leaves the old `cancelled_by`
  (`importer.rs:184`).  A panic ends polling for good.  An admin's run that is dropped
  leaves the advisory lock on a pooled connection until it closes.

*Series*

* A detached occurrence returns when the time of day is edited and, with rules
  stored before zones were kept, after a clock change.
* An occurrence at an hour the clock skips cannot be excluded and may end before it
  starts; a series' first times use the duration in milliseconds.
* With a rule stored before zones were kept, an exception in the hour that the clock
  has twice may name its second pass: the list shows the date as ticked, and it is
  not saved.
* A yearly rule with a day of the month and no month is read as yearly in the month
  of the start; an infinite custom rule gets the day of the start as its end; a
  weekly series without an end that starts on another weekday generates nothing,
  and an edit can be saved with no occurrences (`models.rs:157`).

*Reservation form*

* Approval is not asked for while contracts or resources load; a contract that
  appears after the tick keeps the approval.
* A resource hidden from its user since a reservation was made is not in the loaded
  list (`ReservationForm.tsx:202`, `:857`, `:886`, `:958`): an edit knows no limits of it,
  takes no blocks of it and offers a series.  The server decides.
* A form that is fetched again gets new times with the old recurrence; a chosen
  block that is reserved meanwhile stays chosen (the server refuses it); a link may
  combine blocks-only resources with others.

*Calendar*

* Unticking the last resource shows all.  From month to days with seven days, the
  range can start in the previous month.  `index.tsx:123` says the week view starts on
  Monday; two tabs, a link or the date input make it start on any day.
* Blocks that start in the last half hour are moved up and can cover another.
* The grid has one row for the hour that the clock has twice (`calendarUtils.ts:54-71`),
  but overlaps are decided by the instants: an event of its first pass and one of its
  second share a column, and the second may cover the first.

*Query cache*

* Some hooks set the item they edited and invalidate the lists only
  (`useGroups.ts:110`, `useCollections.ts:129`): of two such edits, the answer that
  comes last stays cached as fresh, though it may be the older.  A first fetch of a key
  that was answered before a write is stored after it, as fresh.
* No change of a resource, group or user invalidates the statistics, which count them
  (`stats/db.rs:199`, `:308-310`), nor does one of a reservation; they are shown as they
  were for the 5 minutes of `useStats.ts:41`.  Other such pairs are in section 8.

*Administrators' pages*

* The summary of a public resource names those who are not signed in among who may
  reserve (`AccessSummary.tsx:25`, `:57-59`), which `resourceAccess.ts:35-37` says mirrors
  the server, but reserving takes a signed-in user (`reservations/routes.rs:255`) whose
  row the checks read (`reservations/db.rs:675-676`, `:728-729`).
* `reservable_until` cannot be cleared once set (`ResourceForm.tsx:494-497`,
  `resources/db.rs:224-227`), and the date drifts by a day per save east of UTC
  (`ResourceForm.tsx:58-62`, `:102-104`).
* Saving a resource unlinks its inactive contracts, or all of them when the query for
  them had failed (`edit/$id.tsx:28-32`, `:54-55`, `resources/db.rs:278-292`).
  Members of a deleted group keep their rights, unnamed in the summary.
* A batch of users that failed in part can be retried only after parsing again; a
  retry with another group leaves the users already registered in the first one.
  What was selected or typed while a bulk update was pending is lost.
* Approval falls back from the locale over fi, en, sv to the first document, the
  print over fi and en to the first: they may differ for a language without a
  document.  Reservations that fail to load are left out of a print silently, and a
  print is not rebuilt after its data is fetched again.
* A contract's language with only a title or only a file is dropped, its upload
  orphaned; a late close of the dialog closes whichever one is open.

## 15. Not modelled

* Access tokens, extractors and passwords: stateless checks; their results are the
  guards of the handlers.
* Groups, collections, statistics: CRUD and aggregating reads without interaction.
  The hooks that call them are in `QueryCache`.
* Restrictions and series of blocks on the server: what they forbid and offer enters
  `Reservations` (`Open`, `blocks`); the transactions that edit and split them are not
  modelled, and the hazards that come with them have no property.
* Mail and its templates: spawned after a commit, changes no table.
* The lock cycle between an edit and a split of one reservation: PostgreSQL aborts one
  of them, which is `Abort`; `RequestsFinish` is about the requests that go on.
* Microsoft Graph over HTTP, iCalendar and rich-text parsing, formatting, colours.
* Start-up, configuration, routing, the generated route tree, translations, styling.
* Of the pages: lists and dashboards, which show what the hooks return and call one
  mutation each; the file import and export of reservations; hour height, scroll
  position and the click on an empty slot of the calendar; texts and the stale
  display of validation errors in forms.

------------------------------- MODULE Browser -------------------------------
(***************************************************************************)
(* The client's hold on a session: client/src/api/client.ts, the token     *)
(* handling of hooks/useAuth.ts and what the pages do with them, composed  *)
(* with the server's refresh tokens (module Sessions, every step of which  *)
(* is one of that module's).                                               *)
(*                                                                         *)
(* The tabs of one browser share localStorage and nothing else.  In each   *)
(* tab three things call the server about tokens, and each has a request   *)
(* slot of its own: requests that share one refreshPromise, the silent     *)
(* refresh of useSilentRefresh (which does not join it), and the user who  *)
(* signs in or out.  A call reads the stored token when it starts and acts *)
(* on the storage again when it is answered: everything may have changed   *)
(* in between.                                                             *)
(***************************************************************************)
EXTENDS Sessions

CONSTANTS
  Tabs,
  Readers,          \* the tabs in which fetchMe runs
  AccessTtl,        \* expires_in of an access token
  RefreshBuffer,    \* REFRESH_BUFFER_MS
  Prompt,           \* how long a call lasts when the network is well
  MaxDisturbances   \* bound on the faults, sign-outs and sign-ins over a session

Roles == {"shared", "silent", "user"}

ASSUME BrowserAssumption ==
  /\ Requests \subseteq Tabs \X Roles
  /\ Tabs \X {"shared"} \subseteq Requests
  /\ Readers \subseteq Tabs
  /\ {AccessTtl, RefreshBuffer, Prompt} \subseteq Nat /\ MaxDisturbances \in Nat \ {0}
  /\ 2 * Prompt <= ReuseGrace
  /\ 2 * Prompt < AccessTtl

VARIABLES
  storage,   \* localStorage: the tokens, and token_expires_at
  call,      \* the calls to /auth/refresh, /auth/login and /auth/logout
  page,      \* per tab, the fetchMe request
  disturbed, \* history: the faults, sign-outs and sign-ins over a session so far,
             \* and whether a retry went out with nothing stored
  trouble    \* history: a consumed token's answer was lost, or a call was slow

client == <<storage, call, page, disturbed, trouble>>
bvars == <<vars, client>>

Instants == 0..(Horizon + AccessTtl)

(* access is when the server stops taking the access token (0: none stored); *)
(* noted is token_expires_at, reckoned when the answer was received.         *)
Storage == [refresh : Tokens \cup {None}, access : Instants, noted : Instants]
Empty == [refresh |-> None, access |-> 0, noted |-> 0]

CallStates ==
  [pc : {"idle", "sent", "serving", "answered"}, kind : {"refresh", "login", "logout"},
   token : Tokens \cup {None}, at : Times,
   answer : {"none", "ok", "rejected", "failed", "lost"},
   new : Tokens \cup {None}, access : Instants]
NoCall == [pc |-> "idle", kind |-> "refresh", token |-> None, at |-> 0,
           answer |-> "none", new |-> None, access |-> 0]

PageStates == [pc : {"idle", "refreshing", "sent", "retrying", "resent"}, access : Instants]
NoPage == [pc |-> "idle", access |-> 0]

BrowserTypeOK ==
  /\ TypeOK
  /\ storage \in Storage
  /\ call \in [Requests -> CallStates]
  /\ page \in [Tabs -> PageStates]
  /\ disturbed \in 0..MaxDisturbances /\ trouble \in BOOLEAN

BrowserInit ==
  /\ Init
  /\ storage = Empty
  /\ call = [q \in Requests |-> NoCall]
  /\ page = [p \in Tabs |-> NoPage]
  /\ disturbed = 0 /\ trouble = FALSE

-----------------------------------------------------------------------------
Quiet == \A q \in Requests : call[q].pc = "idle"
Slow(q) == call[q].pc # "idle" /\ now >= call[q].at + Prompt

Disturb ==
  /\ disturbed < MaxDisturbances
  /\ disturbed' = disturbed + 1

Sent(kind, t) == [NoCall EXCEPT !.pc = "sent", !.kind = kind, !.token = t, !.at = now]

(* refreshAuthToken reads the stored token and posts it. *)
StartRefresh(q) ==
  /\ call[q].pc = "idle"
  /\ storage.refresh # None
  /\ call' = [call EXCEPT ![q] = Sent("refresh", storage.refresh)]

(* useSilentRefresh: every 15 seconds and when the tab becomes visible, for *)
(* an active user; it calls refreshAuthToken whatever refreshPromise holds. *)
SilentRefresh(p) ==
  /\ <<p, "silent">> \in Requests
  /\ storage.access # 0
  /\ storage.noted < now + RefreshBuffer
  /\ StartRefresh(<<p, "silent">>)
  /\ UNCHANGED <<vars, storage, page, disturbed, trouble>>

(* authMiddleware.onRequest: whether a request refreshes before it is sent *)
Expired == storage.refresh # None /\ storage.noted <= now

(* refreshPromise, of which a tab has one at a time: a request joins the call *)
(* in flight or starts one.  Without a stored token there is nothing to await *)
(* and the refresh has failed already.                                        *)
InFlight(p) == call[<<p, "shared">>].pc # "idle"
JoinShared(p) ==
  \/ InFlight(p) /\ UNCHANGED call
  \/ ~InFlight(p) /\ StartRefresh(<<p, "shared">>)

(* Any other request than fetchMe that finds the access token expired *)
OtherRequest(p) ==
  /\ Expired
  /\ ~InFlight(p)
  /\ StartRefresh(<<p, "shared">>)
  /\ UNCHANGED <<vars, storage, page, disturbed, trouble>>

-----------------------------------------------------------------------------
(* fetchMe: GET /users/me, if there is a token at all *)
OpenPage(p) ==
  /\ p \in Readers
  /\ page[p].pc = "idle"
  /\ storage.access # 0
  /\ \/ /\ Expired
        /\ JoinShared(p)
        /\ page' = [page EXCEPT ![p].pc = "refreshing"]
     \/ /\ ~Expired
        /\ page' = [page EXCEPT ![p] = [pc |-> "sent", access |-> storage.access]]
        /\ UNCHANGED call
  /\ UNCHANGED <<vars, storage, disturbed, trouble>>

(* GET /users/me is taken, or fails for a reason that is not the token's. *)
PageAnswered(p) ==
  /\ page[p].pc \in {"sent", "resent"}
  /\ page' = [page EXCEPT ![p] = NoPage]
  /\ UNCHANGED <<vars, storage, call, disturbed, trouble>>

(* onResponse: a 401 asks for a refresh, and one retry. *)
PageRefused(p) ==
  /\ page[p].pc = "sent" /\ page[p].access <= now
  /\ \/ /\ InFlight(p) \/ storage.refresh # None
        /\ JoinShared(p)
        /\ page' = [page EXCEPT ![p].pc = "retrying"]
        /\ UNCHANGED storage
     \/ /\ ~InFlight(p) /\ storage.refresh = None
        /\ page' = [page EXCEPT ![p] = NoPage]
        /\ storage' = Empty
        /\ UNCHANGED call
  /\ UNCHANGED <<vars, disturbed, trouble>>

(* fetchMe: the retry was refused as well; the tokens are cleared. *)
PageRefusedAgain(p) ==
  /\ page[p].pc = "resent" /\ page[p].access <= now
  /\ page' = [page EXCEPT ![p] = NoPage]
  /\ storage' = Empty
  /\ UNCHANGED <<vars, call, disturbed, trouble>>

-----------------------------------------------------------------------------
(* refreshAuthToken, once it is answered: what is stored then, and what it *)
(* returns.  A token that is no longer the stored one was rotated by       *)
(* another tab, whose tokens are left alone.                               *)
Received(q) == [refresh |-> call[q].new, access |-> call[q].access, noted |-> now + AccessTtl]

StoredIfRejected_Unguarded(q) == Empty
StoredIfRejected(q) == IF storage.refresh # call[q].token THEN storage ELSE Empty

Refreshed(q) ==
  \/ call[q].answer = "ok"
  \/ call[q].answer \in {"rejected", "failed"} /\ storage.refresh # call[q].token

StoredAfter(q) ==
  CASE call[q].answer = "ok" -> Received(q)
    [] call[q].answer = "lost" -> storage
    [] call[q].answer \in {"rejected", "failed"} -> StoredIfRejected(q)

SettleSilent(p) ==
  LET q == <<p, "silent">> IN
  /\ q \in Requests /\ call[q].pc = "answered"
  /\ storage' = StoredAfter(q)
  /\ call' = [call EXCEPT ![q] = NoCall]
  /\ UNCHANGED <<vars, page, disturbed, trouble>>

(* The shared promise settles and is forgotten; the page that awaited it goes *)
(* on: it sends what is stored now, or gives up, and then fetchMe clears the  *)
(* tokens whatever the reason was.  A retry for which nothing is stored keeps *)
(* the token that was refused.                                                *)
SettleShared(p) ==
  LET q == <<p, "shared">>
      givesUp == page[p].pc = "retrying" /\ ~Refreshed(q)
      goesOn == \/ page[p].pc = "refreshing"
                \/ page[p].pc = "retrying" /\ Refreshed(q)
      bare == page[p].pc = "retrying" /\ Refreshed(q) /\ storage'.access = 0
  IN /\ q \in Requests /\ call[q].pc = "answered"
     /\ storage' = IF givesUp THEN Empty ELSE StoredAfter(q)
     /\ call' = [call EXCEPT ![q] = NoCall]
     /\ page' = [page EXCEPT ![p] =
          CASE givesUp -> NoPage
            [] goesOn -> [pc |-> IF page[p].pc = "refreshing" THEN "sent" ELSE "resent",
                          access |-> IF bare THEN page[p].access ELSE storage'.access]
            [] OTHER -> page[p]]
     /\ disturbed' = IF bare /\ disturbed = 0 THEN 1 ELSE disturbed
     /\ UNCHANGED <<vars, trouble>>

-----------------------------------------------------------------------------
(* useAuth: login, verifyOtp and register end in handleTokenSuccess; logout *)
(* posts the stored token and clears the storage when that has settled.     *)
StartLogin(p) ==
  LET q == <<p, "user">> IN
  /\ q \in Requests /\ call[q].pc = "idle"
  /\ call' = [call EXCEPT ![q] = Sent("login", None)]
  /\ IF storage = Empty /\ Quiet THEN disturbed' = disturbed ELSE Disturb
  /\ UNCHANGED <<vars, storage, page, trouble>>

StartLogout(p) ==
  LET q == <<p, "user">> IN
  /\ q \in Requests /\ call[q].pc = "idle"
  /\ \/ /\ storage.refresh # None
        /\ call' = [call EXCEPT ![q] = Sent("logout", storage.refresh)]
        /\ UNCHANGED storage
     \/ /\ storage.refresh = None
        /\ storage' = Empty
        /\ UNCHANGED call
  /\ Disturb
  /\ UNCHANGED <<vars, page, trouble>>

SettleUser(p) ==
  LET q == <<p, "user">> IN
  /\ q \in Requests /\ call[q].pc = "answered"
  /\ storage' = CASE call[q].kind = "logout" -> Empty
                  [] call[q].kind = "login" /\ call[q].answer = "ok" -> Received(q)
                  [] OTHER -> storage
  /\ call' = [call EXCEPT ![q] = NoCall]
  /\ UNCHANGED <<vars, page, disturbed, trouble>>

-----------------------------------------------------------------------------
(* The network and the server *)
Answer(q, a) == call' = [call EXCEPT ![q].pc = "answered", ![q].answer = a]

Arrives(q) ==
  /\ call[q].pc = "sent"
  /\ \/ /\ call[q].kind = "refresh"
        /\ Refresh(q, call[q].token)
        /\ call' = [call EXCEPT ![q].pc = "serving"]
     \/ /\ call[q].kind = "login"
        /\ \E u \in Users, s \in Sessions : Login(q, u, s)
        /\ call' = [call EXCEPT ![q].pc = "serving"]
     \/ /\ call[q].kind = "logout"
        /\ Logout(call[q].token)
        /\ Answer(q, "ok")
  /\ UNCHANGED <<storage, page, disturbed, trouble>>

ServerIssues(q) ==
  /\ call[q].pc = "serving"
  /\ \E t \in Tokens :
       /\ Issue(q, t)
       /\ call' = [call EXCEPT ![q].pc = "answered", ![q].answer = "ok", ![q].new = t,
                               ![q].access = now + AccessTtl]
  /\ UNCHANGED <<storage, page, disturbed, trouble>>

ServerRejects(q) ==
  /\ call[q].pc = "serving"
  /\ ReuseCheck(q)
  /\ Answer(q, "rejected")
  /\ UNCHANGED <<storage, page, disturbed, trouble>>

(* A 5xx answer: from a proxy or before anything was done, or because the *)
(* new token was not stored.                                              *)
ServerFails(q) ==
  /\ \/ call[q].pc = "sent" /\ UNCHANGED <<vars, trouble>>
     \/ call[q].pc = "serving" /\ IssueFails(q) /\ trouble' = TRUE
  /\ Answer(q, "failed")
  /\ Disturb
  /\ UNCHANGED <<storage, page>>

(* fetch throws: the request or its answer was lost. *)
NetworkFails(q) ==
  /\ \/ call[q].pc = "sent"
     \/ call[q].pc = "answered" /\ call[q].answer # "lost"
  /\ Answer(q, "lost")
  /\ Disturb
  /\ trouble' = (trouble \/ call[q].answer = "ok")
  /\ UNCHANGED <<vars, storage, page>>

(* The session is ended elsewhere: by the user on another device, or by an admin. *)
EndedElsewhere(s) ==
  /\ \E u \in Users : RevokeSession(u, s)
  /\ Disturb
  /\ UNCHANGED <<storage, call, page, trouble>>

(* Time passes: a call that is not over in time is trouble, and a retry *)
(* may outlive the access token it was sent with.                       *)
ClockTicks ==
  /\ Tick
  /\ trouble' = (trouble \/ \E q \in Requests : Slow(q))
  /\ IF (\E q \in Requests : Slow(q)) \/ (\E p \in Tabs : page[p].pc = "resent")
     THEN Disturb ELSE disturbed' = disturbed
  /\ UNCHANGED <<storage, call, page>>

ServerStep ==
  \/ \E q \in Requests :
       \/ Arrives(q) \/ ServerIssues(q) \/ ServerRejects(q) \/ ServerFails(q) \/ NetworkFails(q)
  \/ \E s \in Sessions : EndedElsewhere(s)
  \/ ClockTicks

ClientStep(p) ==
  \/ SilentRefresh(p) \/ OtherRequest(p) \/ OpenPage(p)
  \/ PageAnswered(p) \/ PageRefused(p) \/ PageRefusedAgain(p)
  \/ SettleSilent(p) \/ SettleShared(p)
  \/ StartLogin(p) \/ StartLogout(p) \/ SettleUser(p)

BrowserNext == ServerStep \/ \E p \in Tabs : ClientStep(p)

BrowserSpec == BrowserInit /\ [][BrowserNext]_bvars

-----------------------------------------------------------------------------
(* However the refreshes of several tabs, and the silent one beside the      *)
(* shared one, overtake each other, also where the refusal of one is read    *)
(* before the other's new token is stored, they do not sign the user out:    *)
(* when all is quiet again the browser holds the token that is usable.  One  *)
(* thing has to be excepted, and counts as a disturbance: two refusals of    *)
(* one token that are both read before the new token is stored.  The first   *)
(* clears the storage, the second takes that for another tab's rotation, and *)
(* fetchMe retries with nothing stored, is refused again, and clears what    *)
(* has been stored in the meantime.                                          *)
ConcurrencyKeepsSignedIn ==
  disturbed = 0 /\ Quiet => \A t \in Tokens : Usable(t) => storage.refresh = t

(* A browser does not set off the alarm for stolen tokens against its own    *)
(* session: that takes a lost answer, or calls that last longer than half    *)
(* the time for which a replayed token is forgiven.                          *)
ReplayMeansTrouble ==
  \A q \in Requests :
    req[q].pc = "rejected" /\ ReusedLongAgo(req[q].token) => trouble

=============================================================================

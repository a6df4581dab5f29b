------------------------------ MODULE Sessions ------------------------------
(***************************************************************************)
(* Refresh tokens and sessions: server/src/domains/auth/db.rs and          *)
(* routes.rs, and what users/routes.rs does to them.                       *)
(*                                                                         *)
(* A session is a chain of refresh tokens: each use consumes a token and,  *)
(* in another statement, inserts the next.  Between the two statements the *)
(* chain has no row that could be revoked.  Every statement commits on its *)
(* own; a request that runs two of them keeps what it knows in req[q].     *)
(* Whoever holds a token, a browser tab or somebody else, may present it   *)
(* at any time and any number of times.                                    *)
(*                                                                         *)
(* Access tokens (stateless, minutes long), password hashes and device     *)
(* details are left out.                                                   *)
(***************************************************************************)
EXTENDS Integers

CONSTANTS
  Users, Sessions, Tokens, Requests,
  RefreshTokenTtl,     \* REFRESH_TOKEN_TTL_DAYS
  SessionMax,          \* SESSION_MAX_DAYS
  ReuseGrace,          \* REUSE_GRACE_SECONDS
  PurgeAge,            \* the 30 days of purge_stale_tokens
  Horizon,             \* bound on the clock
  None

ASSUME TimesAssumption ==
  /\ {RefreshTokenTtl, SessionMax, ReuseGrace, PurgeAge, Horizon} \subseteq Nat
  /\ SessionMax <= PurgeAge

ASSUME NoneAssumption == None \notin Users \cup Sessions \cup Tokens \cup Nat

VARIABLES
  deleted,   \* users with deleted_at
  token,     \* the refresh_tokens table
  req,       \* what each running request knows
  now,       \* the clock
  opened     \* history: when each session was opened by a login

vars == <<deleted, token, req, now, opened>>

Times == 0..Horizon
Reasons == {"rotated", "revoked"}

(* revoked_reason is kept only as far as it is read: rotated or not. *)
TokenRows ==
  [state : {"unused", "valid", "revoked", "purged"},  \* "valid": revoked_at IS NULL
   user : Users \cup {None}, session : Sessions \cup {None},
   started : Times, expires : Nat, revokedAt : Times, reason : Reasons \cup {None}]

NoToken == [state |-> "unused", user |-> None, session |-> None,
            started |-> 0, expires |-> 0, revokedAt |-> 0, reason |-> None]

RequestStates ==
  [pc : {"idle", "issuing", "rejected", "resetting"},
   user : Users \cup {None}, session : Sessions \cup {None}, started : Times,
   token : Tokens \cup {None}]

Idle == [pc |-> "idle", user |-> None, session |-> None, started |-> 0, token |-> None]

TypeOK ==
  /\ deleted \subseteq Users
  /\ token \in [Tokens -> TokenRows]
  /\ req \in [Requests -> RequestStates]
  /\ now \in Times
  /\ opened \in [Sessions -> Times \cup {None}]

Init ==
  /\ deleted = {}
  /\ token = [t \in Tokens |-> NoToken]
  /\ req = [q \in Requests |-> Idle]
  /\ now = 0
  /\ opened = [s \in Sessions |-> None]

-----------------------------------------------------------------------------
Stored(t) == token[t].state \in {"valid", "revoked"}
Usable(t) == token[t].state = "valid" /\ token[t].expires > now
TokensOf(s) == {t \in Tokens : Stored(t) /\ token[t].session = s}

(* UPDATE refresh_tokens SET revoked_at, revoked_reason WHERE revoked_at IS NULL ... *)
Revoke(ts, reason) ==
  token' = [t \in Tokens |->
             IF t \in ts /\ token[t].state = "valid"
             THEN [token[t] EXCEPT !.state = "revoked", !.revokedAt = now, !.reason = reason]
             ELSE token[t]]

(* login, register and verify_otp: the account has been read and the       *)
(* credentials verified; a new session starts.                             *)
Login(q, u, s) ==
  /\ req[q].pc = "idle"
  /\ u \notin deleted
  /\ opened[s] = None
  /\ opened' = [opened EXCEPT ![s] = now]
  /\ req' = [req EXCEPT ![q] = [Idle EXCEPT !.pc = "issuing", !.user = u, !.session = s,
                                            !.started = now]]
  /\ UNCHANGED <<deleted, token, now>>

(* verify_and_consume_refresh_token, its UPDATE ... RETURNING. *)
Consumable_WithoutRevocationTest(t) ==
  Stored(t) /\ token[t].expires > now /\ token[t].user \notin deleted
Consumable(t) == Usable(t) /\ token[t].user \notin deleted

CarriedOn_Restarted(t) ==
  [Idle EXCEPT !.pc = "issuing", !.user = token[t].user, !.session = token[t].session,
               !.started = now]
CarriedOn(t) ==
  [Idle EXCEPT !.pc = "issuing", !.user = token[t].user, !.session = token[t].session,
               !.started = token[t].started]

Refresh(q, t) ==
  /\ req[q].pc = "idle"
  /\ token[t].state # "unused"
  /\ \/ /\ Consumable(t)
        /\ token' = [token EXCEPT ![t].state = "revoked", ![t].revokedAt = now,
                                  ![t].reason = "rotated"]
        /\ req' = [req EXCEPT ![q] = CarriedOn(t)]
     \/ /\ ~Consumable(t)
        /\ req' = [req EXCEPT ![q] = [Idle EXCEPT !.pc = "rejected", !.token = t]]
        /\ token' = token
  /\ UNCHANGED <<deleted, now, opened>>

(* create_refresh_token: sliding, capped by the session's absolute lifetime. *)
Expiry(started) ==
  IF now + RefreshTokenTtl < started + SessionMax THEN now + RefreshTokenTtl
  ELSE started + SessionMax

Issue(q, t) ==
  /\ req[q].pc = "issuing"
  /\ token[t].state = "unused"
  /\ token' = [token EXCEPT ![t] = [NoToken EXCEPT
                 !.state = "valid", !.user = req[q].user, !.session = req[q].session,
                 !.started = req[q].started, !.expires = Expiry(req[q].started)]]
  /\ req' = [req EXCEPT ![q] = Idle]
  /\ UNCHANGED <<deleted, now, opened>>

(* The process dies or the INSERT fails: the chain ends here. *)
IssueFails(q) ==
  /\ req[q].pc = "issuing"
  /\ req' = [req EXCEPT ![q] = Idle]
  /\ UNCHANGED <<deleted, token, now, opened>>

(* revoke_session_on_reuse *)
ReusedLongAgo_NoGrace(t) ==
  Stored(t) /\ token[t].state = "revoked" /\ token[t].reason = "rotated"
ReusedLongAgo(t) ==
  /\ Stored(t) /\ token[t].state = "revoked" /\ token[t].reason = "rotated"
  /\ token[t].revokedAt < now - ReuseGrace

ReuseCheck(q) ==
  LET t == req[q].token IN
  /\ req[q].pc = "rejected"
  /\ \/ ReusedLongAgo(t) /\ Revoke(TokensOf(token[t].session), "revoked")
     \/ ~ReusedLongAgo(t) /\ token' = token
  /\ req' = [req EXCEPT ![q] = Idle]
  /\ UNCHANGED <<deleted, now, opened>>

(* logout: the session of the token, whatever became of the token itself. *)
Logout(t) ==
  /\ Stored(t)
  /\ Revoke(TokensOf(token[t].session), "revoked")
  /\ UNCHANGED <<deleted, req, now, opened>>

(* revoke_session and revoke_all_sessions, by the user or an admin *)
RevokeSessions(u, except) ==
  /\ Revoke({t \in Tokens : Stored(t) /\ token[t].user = u /\ token[t].session # except},
            "revoked")
  /\ UNCHANGED <<deleted, req, now, opened>>

RevokeSession(u, s) ==
  /\ Revoke({t \in TokensOf(s) : token[t].user = u}, "revoked")
  /\ UNCHANGED <<deleted, req, now, opened>>

(* PATCH /users/{id} with a password: the UPDATE of the user, then, in *)
(* another statement, the revocation.                                  *)
ResetPassword(q, u) ==
  /\ req[q].pc = "idle"
  /\ u \notin deleted
  /\ req' = [req EXCEPT ![q] = [Idle EXCEPT !.pc = "resetting", !.user = u]]
  /\ UNCHANGED <<deleted, token, now, opened>>

ResetRevokes(q) ==
  LET u == req[q].user IN
  /\ req[q].pc = "resetting"
  /\ Revoke({t \in Tokens : Stored(t) /\ token[t].user = u}, "revoked")
  /\ req' = [req EXCEPT ![q] = Idle]
  /\ UNCHANGED <<deleted, now, opened>>

(* delete_user: one transaction *)
DeleteUser(u) ==
  /\ u \notin deleted
  /\ deleted' = deleted \cup {u}
  /\ Revoke({t \in Tokens : Stored(t) /\ token[t].user = u}, "revoked")
  /\ UNCHANGED <<req, now, opened>>

(* purge_stale_tokens *)
Stale_AfterGrace(t) ==
  Stored(t) /\ token[t].state = "revoked" /\ token[t].revokedAt < now - ReuseGrace
Stale(t) ==
  /\ Stored(t)
  /\ \/ token[t].expires < now - PurgeAge
     \/ token[t].state = "revoked" /\ token[t].revokedAt < now - PurgeAge

Purge ==
  /\ \E t \in Tokens : Stale(t)
  /\ token' = [t \in Tokens |-> IF Stale(t) THEN [token[t] EXCEPT !.state = "purged"]
                                ELSE token[t]]
  /\ UNCHANGED <<deleted, req, now, opened>>

Tick ==
  /\ now < Horizon
  /\ now' = now + 1
  /\ UNCHANGED <<deleted, token, req, opened>>

Next ==
  \/ \E q \in Requests :
       \/ \E u \in Users : ResetPassword(q, u) \/ \E s \in Sessions : Login(q, u, s)
       \/ \E t \in Tokens : Refresh(q, t) \/ Issue(q, t)
       \/ IssueFails(q) \/ ReuseCheck(q) \/ ResetRevokes(q)
  \/ \E t \in Tokens : Logout(t)
  \/ \E u \in Users :
       \/ DeleteUser(u)
       \/ \E s \in Sessions \cup {None} : RevokeSessions(u, s)
       \/ \E s \in Sessions : RevokeSession(u, s)
  \/ Purge
  \/ Tick

Spec == Init /\ [][Next]_vars

-----------------------------------------------------------------------------
(* A session has one refresh token that is not revoked, or one request about  *)
(* to issue it, never two: list_sessions shows a row per token as a session,  *)
(* and two tabs or a thief that replay a token cannot fork the chain.         *)
ChainNeverForks ==
  /\ \A t, t2 \in Tokens :
       token[t].state = "valid" /\ token[t2].state = "valid"
         /\ token[t].session = token[t2].session => t = t2
  /\ \A q \in Requests, t \in Tokens :
       req[q].pc = "issuing" /\ token[t].state = "valid" => token[t].session # req[q].session

(* However often it is refreshed, a session ends SESSION_MAX_DAYS after the   *)
(* login that opened it.                                                      *)
SessionIsBounded ==
  \A t \in Tokens : Usable(t) =>
    LET s == token[t].session IN opened[s] # None /\ now < opened[s] + SessionMax

(* Purging old rows never blinds the reuse check: a rotated token that has    *)
(* been forgotten belongs to a session in which nothing is usable any more.   *)
PurgeForgetsNoLiveChain ==
  \A t, t2 \in Tokens :
    token[t].state = "purged" /\ Usable(t2) => token[t].session # token[t2].session

(* A session with neither a valid token nor a token about to be issued is     *)
(* over: no order of refreshes, replays and purges brings it back.            *)
Going(s) ==
  \/ \E t \in Tokens : token[t].state = "valid" /\ token[t].session = s
  \/ \E q \in Requests : req[q].pc = "issuing" /\ req[q].session = s

OverIsOver ==
  [][\A s \in Sessions : opened[s] # None /\ ~Going(s) => ~Going(s)']_vars

=============================================================================

--------------------------- MODULE Browser_proofs ----------------------------
(***************************************************************************)
(* Theorems about Sessions, for any users, sessions, tokens, requests and  *)
(* any lengths of time with SessionMax <= PurgeAge, and then about         *)
(* Browser, for any number of tabs and any lengths of time with            *)
(* 2 * Prompt <= ReuseGrace: every step of the tabs is a step of Sessions  *)
(* or none, so that what is proved of Sessions holds of the browser; a     *)
(* browser without lost answers or slow calls never sets off the alarm for *)
(* stolen tokens, and stays signed in whatever its tabs do at once.        *)
(***************************************************************************)
EXTENDS Browser, TLAPS

(***************************************************************************)
(* Part 1: Sessions                                                        *)
(***************************************************************************)

(* What every row of a session has in common. *)
TokenFacts(t) ==
  LET s == token[t].session IN
  token[t].state # "unused" =>
    /\ s \in Sessions /\ opened[s] # None
    /\ token[t].started = opened[s]
    /\ opened[s] <= token[t].expires
    /\ token[t].expires <= opened[s] + SessionMax
    /\ token[t].state = "revoked" => opened[s] <= token[t].revokedAt
    /\ token[t].state = "purged" => opened[s] + SessionMax < now

RequestFacts(q) ==
  req[q].pc = "issuing" =>
    /\ req[q].session \in Sessions
    /\ opened[req[q].session] # None
    /\ req[q].started = opened[req[q].session]

SessionFacts(s) == opened[s] # None => opened[s] <= now

OneIssuer ==
  \A q, q2 \in Requests :
    req[q].pc = "issuing" /\ req[q2].pc = "issuing" /\ req[q].session = req[q2].session => q = q2

Inv ==
  /\ TypeOK
  /\ \A t \in Tokens : TokenFacts(t)
  /\ \A q \in Requests : RequestFacts(q)
  /\ \A s \in Sessions : SessionFacts(s)
  /\ OneIssuer
  /\ ChainNeverForks

USE TimesAssumption, NoneAssumption

(* The clock starts within its bound. *)
LEMMA ZeroIsATime == 0 \in Times /\ 0 \in Nat
  BY DEF Times

(* The idle slot is well formed. *)
LEMMA IdleType == Idle \in RequestStates
  BY DEF Idle, RequestStates, Times

(* An issued row is well formed. *)
LEMMA IssuedRowType ==
  ASSUME NEW u \in Users \cup {None}, NEW s \in Sessions \cup {None},
         NEW started \in Times, NEW expires \in Nat
  PROVE  [NoToken EXCEPT !.state = "valid", !.user = u, !.session = s, !.started = started,
                         !.expires = expires] \in TokenRows
  BY ZeroIsATime DEF TokenRows, NoToken

(* A token expires within its own lifetime and the session's. *)
LEMMA ExpiryBounds ==
  ASSUME NEW started \in Nat, now \in Nat, started <= now
  PROVE  /\ Expiry(started) \in Nat
         /\ started <= Expiry(started) /\ Expiry(started) <= started + SessionMax
  BY DEF Expiry

-----------------------------------------------------------------------------
(* The statements of the two kinds: those that revoke rows, those that do not. *)

(* Revoking any set of rows keeps the invariant. *)
LEMMA RevokeStep ==
  ASSUME Inv, NEW ts \in SUBSET Tokens, NEW reason \in Reasons, Revoke(ts, reason),
         UNCHANGED <<now, opened>>,
         req' = req \/ \E q \in Requests : req' = [req EXCEPT ![q] = Idle],
         deleted' \subseteq Users
  PROVE  Inv'
<1>1. now \in Times /\ now \in Nat
  BY DEF Inv, TypeOK, Times
<1>2. \A t \in Tokens : \/ token'[t] = token[t]
                        \/ /\ token[t].state = "valid"
                           /\ token'[t] = [token[t] EXCEPT !.state = "revoked",
                                              !.revokedAt = now, !.reason = reason]
  BY DEF Revoke
<1>3. \A t \in Tokens : /\ token'[t] \in TokenRows
                        /\ token'[t].session = token[t].session
                        /\ token'[t].started = token[t].started
                        /\ token'[t].expires = token[t].expires
                        /\ token'[t].state = "valid" => token[t].state = "valid"
                        /\ token[t].state = "unused" <=> token'[t].state = "unused"
                        /\ token'[t].state = "purged" => token[t].state = "purged"
                        /\ \/ token'[t].revokedAt = now
                           \/ token'[t] = token[t]
  <2> SUFFICES ASSUME NEW t \in Tokens
               PROVE  /\ token'[t] \in TokenRows
                      /\ token'[t].session = token[t].session
                      /\ token'[t].started = token[t].started
                      /\ token'[t].expires = token[t].expires
                      /\ token'[t].state = "valid" => token[t].state = "valid"
                      /\ token[t].state = "unused" <=> token'[t].state = "unused"
                      /\ token'[t].state = "purged" => token[t].state = "purged"
                      /\ token'[t].revokedAt = now \/ token'[t] = token[t]
    OBVIOUS
  <2>1. token[t] \in TokenRows
    BY DEF Inv, TypeOK
  <2>2. CASE token'[t] = token[t]
    BY <2>1, <2>2
  <2>3. CASE /\ token[t].state = "valid"
             /\ token'[t] = [token[t] EXCEPT !.state = "revoked", !.revokedAt = now,
                                              !.reason = reason]
    BY <1>1, <2>1, <2>3 DEF TokenRows
  <2> QED
    BY <1>2, <2>2, <2>3
<1>4. \A q \in Requests : req'[q] = req[q] \/ req'[q] = Idle
  BY DEF Inv, TypeOK
<1>5. TypeOK'
  <2>1. req' \in [Requests -> RequestStates]
    BY IdleType DEF Inv, TypeOK
  <2>2. token' \in [Tokens -> TokenRows]
    BY <1>3 DEF Revoke
  <2> QED
    BY <2>1, <2>2 DEF Inv, TypeOK
<1>6. \A t \in Tokens : TokenFacts(t)'
  <2> SUFFICES ASSUME NEW t \in Tokens PROVE TokenFacts(t)'
    OBVIOUS
  <2>1. TokenFacts(t) /\ (token[t].state # "unused" => SessionFacts(token[t].session))
    BY DEF Inv, TokenFacts
  <2> QED
    BY <1>3, <2>1 DEF TokenFacts, SessionFacts
<1>7. (\A q \in Requests : RequestFacts(q)') /\ OneIssuer'
  BY <1>4 DEF Inv, RequestFacts, OneIssuer, Idle
<1>8. (\A s \in Sessions : SessionFacts(s)')
  BY DEF Inv, SessionFacts
<1>9. ChainNeverForks'
  BY <1>3, <1>4 DEF Inv, ChainNeverForks, Idle
<1> QED
  BY <1>5, <1>6, <1>7, <1>8, <1>9 DEF Inv

(* A step that leaves the rows alone. *)
LEMMA QuietStep ==
  ASSUME Inv, UNCHANGED <<token, opened>>, TypeOK', now <= now',
         \A q \in Requests : req'[q] = req[q] \/ req'[q].pc # "issuing"
  PROVE  Inv'
<1>1. now \in Nat /\ now' \in Nat
  BY DEF Inv, TypeOK, Times
<1>2. \A s \in Sessions : SessionFacts(s)'
  BY <1>1 DEF Inv, SessionFacts, TypeOK, Times
<1>3. \A t \in Tokens : TokenFacts(t)'
  BY <1>1 DEF Inv, TokenFacts, TypeOK, Times
<1>4. (\A q \in Requests : RequestFacts(q)') /\ OneIssuer'
  BY DEF Inv, RequestFacts, OneIssuer
<1>5. ChainNeverForks'
  BY DEF Inv, ChainNeverForks
<1> QED
  BY <1>2, <1>3, <1>4, <1>5 DEF Inv

-----------------------------------------------------------------------------
(* A login opens a session no row or request belongs to. *)
LEMMA LoginInv ==
  ASSUME Inv, NEW q \in Requests, NEW u \in Users, NEW s \in Sessions, Login(q, u, s)
  PROVE  Inv'
<1> DEFINE e == [Idle EXCEPT !.pc = "issuing", !.user = u, !.session = s, !.started = now]
<1>1. e \in RequestStates /\ e.pc = "issuing" /\ e.session = s /\ e.started = now
  BY DEF Inv, TypeOK, Idle, RequestStates
<1>2. req' = [req EXCEPT ![q] = e] /\ opened' = [opened EXCEPT ![s] = now]
  BY DEF Login
<1> HIDE DEF e
<1>3. UNCHANGED <<deleted, token, now>> /\ opened[s] = None /\ now \in Nat
  BY DEF Login, Inv, TypeOK, Times
<1>4. /\ req'[q] = e /\ \A q2 \in Requests \ {q} : req'[q2] = req[q2]
      /\ opened'[s] = now /\ \A s2 \in Sessions \ {s} : opened'[s2] = opened[s2]
  BY <1>2 DEF Inv, TypeOK
<1>5. TypeOK'
  BY <1>1, <1>2, <1>3 DEF Inv, TypeOK
<1>6. \A t \in Tokens : TokenFacts(t)'
  BY <1>3, <1>4 DEF Inv, TokenFacts
<1>7. \A q2 \in Requests : RequestFacts(q2)'
  BY <1>1, <1>3, <1>4 DEF Inv, RequestFacts
<1>8. \A s2 \in Sessions : SessionFacts(s2)'
  BY <1>3, <1>4 DEF Inv, SessionFacts
<1>9. OneIssuer'
  BY <1>1, <1>3, <1>4 DEF Inv, OneIssuer, RequestFacts
<1>10. ChainNeverForks'
  BY <1>1, <1>3, <1>4 DEF Inv, ChainNeverForks, TokenFacts
<1> QED
  BY <1>5, <1>6, <1>7, <1>8, <1>9, <1>10 DEF Inv

(* The rotation: the valid row of the chain becomes the request about to issue. *)
LEMMA RefreshInv ==
  ASSUME Inv, NEW q \in Requests, NEW t \in Tokens, Refresh(q, t)
  PROVE  Inv'
<1>1. CASE ~Consumable(t)
  <2>1. [Idle EXCEPT !.pc = "rejected", !.token = t] \in RequestStates
    BY ZeroIsATime DEF Idle, RequestStates
  <2>2. TypeOK'
    BY <1>1, <2>1 DEF Refresh, Inv, TypeOK
  <2>3. \A q2 \in Requests : req'[q2] = req[q2] \/ req'[q2].pc # "issuing"
    BY <1>1 DEF Refresh, Inv, TypeOK, Idle
  <2>4. now <= now' /\ UNCHANGED <<token, opened>>
    BY <1>1 DEF Refresh, Inv, TypeOK, Times
  <2> QED
    BY <2>2, <2>3, <2>4, QuietStep
<1>2. CASE Consumable(t)
  <2> DEFINE e == CarriedOn(t)
  <2> DEFINE w == [token[t] EXCEPT !.state = "revoked", !.revokedAt = now, !.reason = "rotated"]
  <2>1. token[t] \in TokenRows /\ token[t].state = "valid" /\ now \in Times
    BY <1>2 DEF Inv, TypeOK, Consumable, Usable
  <2>2. /\ e \in RequestStates /\ e.pc = "issuing"
        /\ e.session = token[t].session /\ e.started = token[t].started
    BY <2>1 DEF CarriedOn, Idle, RequestStates, TokenRows
  <2>3. /\ w \in TokenRows /\ w.state = "revoked" /\ w.revokedAt = now
        /\ w.session = token[t].session /\ w.started = token[t].started
        /\ w.expires = token[t].expires
    BY <2>1 DEF TokenRows, Reasons
  <2>4. /\ token' = [token EXCEPT ![t] = w] /\ req' = [req EXCEPT ![q] = e]
        /\ UNCHANGED <<deleted, now, opened>> /\ req[q].pc = "idle"
    BY <1>2 DEF Refresh, Inv, TypeOK
  <2> HIDE DEF e, w
  <2>5. /\ token'[t] = w /\ \A t2 \in Tokens \ {t} : token'[t2] = token[t2]
        /\ req'[q] = e /\ \A q2 \in Requests \ {q} : req'[q2] = req[q2]
    BY <2>4 DEF Inv, TypeOK
  <2>6. TypeOK'
    BY <2>2, <2>3, <2>4 DEF Inv, TypeOK
  <2>7. \A t2 \in Tokens : TokenFacts(t2)'
    BY <2>1, <2>3, <2>4, <2>5 DEF Inv, TokenFacts, SessionFacts, Times
  <2>8. \A q2 \in Requests : RequestFacts(q2)'
    BY <2>1, <2>2, <2>4, <2>5 DEF Inv, RequestFacts, TokenFacts
  <2>9. OneIssuer'
    BY <2>1, <2>2, <2>5 DEF Inv, OneIssuer, ChainNeverForks
  <2>10. ChainNeverForks'
    BY <2>1, <2>2, <2>3, <2>5 DEF Inv, ChainNeverForks
  <2>11. \A s \in Sessions : SessionFacts(s)'
    BY <2>4 DEF Inv, SessionFacts
  <2> QED
    BY <2>6, <2>7, <2>8, <2>9, <2>10, <2>11 DEF Inv
<1> QED
  BY <1>1, <1>2

(* The request about to issue becomes the valid row again. *)
LEMMA IssueInv ==
  ASSUME Inv, NEW q \in Requests, NEW t \in Tokens, Issue(q, t)
  PROVE  Inv'
<1> DEFINE w == [NoToken EXCEPT !.state = "valid", !.user = req[q].user,
                   !.session = req[q].session, !.started = req[q].started,
                   !.expires = Expiry(req[q].started)]
<1>1. /\ req[q] \in RequestStates /\ req[q].pc = "issuing" /\ token[t].state = "unused"
      /\ token' = [token EXCEPT ![t] = w] /\ req' = [req EXCEPT ![q] = Idle]
      /\ UNCHANGED <<deleted, now, opened>>
  BY DEF Issue, Inv, TypeOK
<1> DEFINE s == req[q].session
<1>2. /\ s \in Sessions /\ opened[s] # None /\ opened[s] <= now
      /\ req[q].started = opened[s] /\ opened[s] \in Nat /\ now \in Nat
  BY <1>1 DEF Inv, RequestFacts, SessionFacts, TypeOK, Times
<1>3. /\ Expiry(opened[s]) \in Nat /\ opened[s] <= Expiry(opened[s])
      /\ Expiry(opened[s]) <= opened[s] + SessionMax
  BY <1>2, ExpiryBounds
<1>4. /\ w \in TokenRows /\ w.state = "valid" /\ w.session = s
      /\ w.started = opened[s] /\ w.expires = Expiry(opened[s])
  <2>1. /\ req[q].user \in Users \cup {None} /\ s \in Sessions \cup {None}
        /\ req[q].started \in Times
    BY <1>1 DEF RequestStates
  <2>2. w.state = "valid" /\ w.session = s /\ w.started = req[q].started
        /\ w.expires = Expiry(req[q].started)
    BY DEF NoToken
  <2>3. Expiry(req[q].started) \in Nat
    BY <1>2, <1>3
  <2>4. w \in TokenRows
    BY <2>1, <2>3, IssuedRowType
  <2> QED
    BY <1>2, <2>2, <2>4
<1> HIDE DEF w
<1>5. /\ token'[t] = w /\ \A t2 \in Tokens \ {t} : token'[t2] = token[t2]
      /\ req'[q] = Idle /\ \A q2 \in Requests \ {q} : req'[q2] = req[q2]
  BY <1>1 DEF Inv, TypeOK
<1>6. TypeOK'
  BY <1>1, <1>4, IdleType DEF Inv, TypeOK
<1>7. \A t2 \in Tokens : TokenFacts(t2)'
  BY <1>1, <1>2, <1>3, <1>4, <1>5 DEF Inv, TokenFacts
<1>8. \A q2 \in Requests : RequestFacts(q2)'
  BY <1>1, <1>5 DEF Inv, RequestFacts, Idle
<1>9. OneIssuer'
  BY <1>5 DEF Inv, OneIssuer, Idle
<1>10. ChainNeverForks'
  BY <1>1, <1>4, <1>5 DEF Inv, ChainNeverForks, OneIssuer, Idle
<1>11. \A s2 \in Sessions : SessionFacts(s2)'
  BY <1>1 DEF Inv, SessionFacts
<1> QED
  BY <1>6, <1>7, <1>8, <1>9, <1>10, <1>11 DEF Inv

(* A purged row is older than its session can be. *)
LEMMA PurgeInv ==
  ASSUME Inv, Purge
  PROVE  Inv'
<1>1. now \in Nat /\ now' = now /\ UNCHANGED <<deleted, req, opened>>
  BY DEF Purge, Inv, TypeOK, Times
<1>2. ASSUME NEW t \in Tokens
      PROVE  /\ token'[t] \in TokenRows /\ token'[t].session = token[t].session
             /\ TokenFacts(t)'
             /\ token'[t].state = "valid" => token[t].state = "valid"
  <2>1. token[t] \in TokenRows /\ TokenFacts(t)
    BY DEF Inv, TypeOK
  <2>2. CASE Stale(t)
    <3> DEFINE w == [token[t] EXCEPT !.state = "purged"]
    <3>1. token'[t] = w
      BY <2>2 DEF Purge
    <3>2. /\ w \in TokenRows /\ w.state = "purged" /\ w.session = token[t].session
          /\ w.started = token[t].started /\ w.expires = token[t].expires
      BY <2>1 DEF TokenRows
    <3> HIDE DEF w
    <3>3. opened[token[t].session] \in Nat
      BY <2>1, <2>2 DEF TokenFacts, Stale, Stored, Inv, TypeOK, Times
    <3>4. token[t].expires \in Nat /\ token[t].revokedAt \in Nat
      BY <2>1 DEF TokenRows, Times
    <3>5. opened[token[t].session] + SessionMax < now
      BY <1>1, <2>1, <2>2, <3>3, <3>4 DEF TokenFacts, Stale, Stored
    <3> QED
      BY <1>1, <2>1, <2>2, <3>1, <3>2, <3>5 DEF TokenFacts, Stale, Stored
  <2>3. CASE ~Stale(t)
    <3>1. token'[t] = token[t]
      BY <2>3 DEF Purge
    <3> QED
      BY <1>1, <2>1, <3>1 DEF TokenFacts
  <2> QED
    BY <2>2, <2>3
<1>3. TypeOK'
  BY <1>1, <1>2 DEF Purge, Inv, TypeOK
<1>4. (\A q \in Requests : RequestFacts(q)') /\ (\A s \in Sessions : SessionFacts(s)') /\ OneIssuer'
  BY <1>1 DEF Inv, RequestFacts, SessionFacts, OneIssuer
<1>5. ChainNeverForks'
  BY <1>1, <1>2 DEF Inv, ChainNeverForks
<1> QED
  BY <1>2, <1>3, <1>4, <1>5 DEF Inv

(* Every step keeps the invariant. *)
LEMMA InvStep ==
  ASSUME Inv, [Next]_vars
  PROVE  Inv'
<1>1. now \in Nat
  BY DEF Inv, TypeOK, Times
<1>2. ASSUME NEW q \in Requests, NEW u \in Users, ResetPassword(q, u) PROVE Inv'
  <2>1. [Idle EXCEPT !.pc = "resetting", !.user = u] \in RequestStates
    BY ZeroIsATime DEF Idle, RequestStates
  <2>2. TypeOK'
    BY <1>2, <2>1 DEF ResetPassword, Inv, TypeOK
  <2>3. \A q2 \in Requests : req'[q2] = req[q2] \/ req'[q2].pc # "issuing"
    BY <1>2 DEF ResetPassword, Inv, TypeOK, Idle
  <2> QED
    BY <1>1, <1>2, <2>2, <2>3, QuietStep DEF ResetPassword
<1>3. ASSUME NEW q \in Requests, req' = [req EXCEPT ![q] = Idle],
             UNCHANGED <<deleted, token, now, opened>>
      PROVE  Inv'
  <2>1. TypeOK'
    BY <1>3, IdleType DEF Inv, TypeOK
  <2>2. \A q2 \in Requests : req'[q2] = req[q2] \/ req'[q2].pc # "issuing"
    BY <1>3 DEF Inv, TypeOK, Idle
  <2> QED
    BY <1>1, <1>3, <2>1, <2>2, QuietStep
<1>4. ASSUME NEW q \in Requests, IssueFails(q) PROVE Inv'
  BY <1>3, <1>4 DEF IssueFails
<1>5. ASSUME NEW q \in Requests, ReuseCheck(q) PROVE Inv'
  <2>1. CASE token' = token
    BY <1>3, <1>5, <2>1 DEF ReuseCheck
  <2>2. CASE Revoke(TokensOf(token[req[q].token].session), "revoked")
    BY <1>5, <2>2, RevokeStep DEF ReuseCheck, TokensOf, Reasons, Inv, TypeOK
  <2> QED
    BY <1>5, <2>1, <2>2 DEF ReuseCheck
<1>6. ASSUME NEW q \in Requests, ResetRevokes(q) PROVE Inv'
  BY <1>6, RevokeStep DEF ResetRevokes, Reasons, Inv, TypeOK
<1>7. ASSUME NEW t \in Tokens, Logout(t) PROVE Inv'
  BY <1>7, RevokeStep DEF Logout, TokensOf, Reasons, Inv, TypeOK
<1>8. ASSUME NEW u \in Users, DeleteUser(u) PROVE Inv'
  BY <1>8, RevokeStep DEF DeleteUser, Reasons, Inv, TypeOK
<1>9. ASSUME NEW u \in Users, NEW s \in Sessions \cup {None}, RevokeSessions(u, s) PROVE Inv'
  BY <1>9, RevokeStep DEF RevokeSessions, Reasons, Inv, TypeOK
<1>10. ASSUME NEW u \in Users, NEW s \in Sessions, RevokeSession(u, s) PROVE Inv'
  BY <1>10, RevokeStep DEF RevokeSession, TokensOf, Reasons, Inv, TypeOK
<1>11. CASE Tick
  <2>1. now' \in Times /\ now <= now' /\ UNCHANGED <<deleted, token, req, opened>>
    BY <1>1, <1>11 DEF Tick, Times
  <2> QED
    BY <2>1, QuietStep DEF Inv, TypeOK
<1>12. CASE UNCHANGED vars
  BY <1>1, <1>12, QuietStep DEF vars, Inv, TypeOK
<1> QED
  BY <1>2, <1>4, <1>5, <1>6, <1>7, <1>8, <1>9, <1>10, <1>11, <1>12,
     LoginInv, RefreshInv, IssueInv, PurgeInv DEF Next

LEMMA InitInv == Init => Inv
<1> SUFFICES ASSUME Init PROVE Inv
  OBVIOUS
<1>1. NoToken \in TokenRows
  BY ZeroIsATime DEF NoToken, TokenRows
<1>2. TypeOK
  BY <1>1, IdleType, ZeroIsATime DEF Init, TypeOK
<1>3. \A t \in Tokens : TokenFacts(t)
  BY DEF Init, TokenFacts, NoToken
<1>4. (\A q \in Requests : RequestFacts(q)) /\ OneIssuer /\ ChainNeverForks
  BY DEF Init, RequestFacts, OneIssuer, ChainNeverForks, Idle, NoToken
<1>5. \A s \in Sessions : SessionFacts(s)
  BY DEF Init, SessionFacts
<1> QED
  BY <1>2, <1>3, <1>4, <1>5 DEF Inv

(* The inductive invariant: rows and running requests of a session agree on   *)
(* when it was opened, and form one chain.                                    *)
THEOREM SessionInvariance == Spec => []Inv
BY InitInv, InvStep, PTL DEF Spec

(* No request writes a token row or keeps a value outside its column's domain. *)
THEOREM Typed == Spec => []TypeOK
<1>1. Inv => TypeOK
  BY DEF Inv
<1> QED
  BY <1>1, SessionInvariance, PTL

(* ChainNeverForks in every instance: whatever is replayed, and by however    *)
(* many at once, a session has at most one way to go on.                      *)
THEOREM NoFork == Spec => []ChainNeverForks
<1>1. Inv => ChainNeverForks
  BY DEF Inv
<1> QED
  BY <1>1, SessionInvariance, PTL

(* SessionIsBounded: rotating a token never lengthens the session. *)
THEOREM Bounded == Spec => []SessionIsBounded
<1>1. Inv => SessionIsBounded
  <2> SUFFICES ASSUME Inv, NEW t \in Tokens, Usable(t)
               PROVE  LET s == token[t].session IN
                        opened[s] # None /\ now < opened[s] + SessionMax
    BY DEF SessionIsBounded
  <2>1. TokenFacts(t) /\ token[t].expires \in Nat /\ now \in Nat
    BY DEF Inv, TypeOK, TokenRows, Times
  <2>2. token[t].session \in Sessions /\ opened[token[t].session] \in Nat
    BY <2>1 DEF TokenFacts, Usable, Inv, TypeOK, Times
  <2> QED
    BY <2>1, <2>2 DEF TokenFacts, Usable
<1> QED
  BY <1>1, SessionInvariance, PTL

(* PurgeForgetsNoLiveChain: with SessionMax <= PurgeAge, the reuse check still *)
(* knows every rotated token of a session that can go on.                      *)
THEOREM PurgeIsSafe == Spec => []PurgeForgetsNoLiveChain
<1>1. Inv => PurgeForgetsNoLiveChain
  <2> SUFFICES ASSUME Inv, NEW t \in Tokens, NEW t2 \in Tokens,
                      token[t].state = "purged", Usable(t2),
                      token[t].session = token[t2].session
               PROVE  FALSE
    BY DEF PurgeForgetsNoLiveChain
  <2>1. TokenFacts(t) /\ TokenFacts(t2) /\ token[t2].expires \in Nat /\ now \in Nat
    BY DEF Inv, TypeOK, TokenRows, Times
  <2>2. opened[token[t].session] \in Nat
    BY <2>1 DEF TokenFacts, Inv, TypeOK, Times
  <2> QED
    BY <2>1, <2>2 DEF TokenFacts, Usable
<1> QED
  BY <1>1, SessionInvariance, PTL

-----------------------------------------------------------------------------
(* Where valid rows and requests about to issue come from. *)

(* Revoking makes no row valid. *)
LEMMA RevokeAddsNothing ==
  ASSUME NEW ts, NEW reason, Revoke(ts, reason), NEW s, NEW t \in Tokens,
         token'[t].state = "valid" /\ token'[t].session = s, TypeOK
  PROVE  token[t].state = "valid" /\ token[t].session = s
<1>1. token'[t] = token[t] \/
        token'[t] = [token[t] EXCEPT !.state = "revoked", !.revokedAt = now, !.reason = reason]
  BY DEF Revoke
<1>2. token[t] \in TokenRows
  BY DEF TypeOK
<1> QED
  BY <1>1, <1>2 DEF TokenRows

(* A chain that goes on after a step went on before it: only a login starts one. *)
LEMMA GoingStep ==
  ASSUME TypeOK, [Next]_vars, NEW s \in Sessions, opened[s] # None, Going(s)'
  PROVE  Going(s)
<1>1. ASSUME NEW q \in Requests, req' = req \/ req' = [req EXCEPT ![q] = Idle],
             \/ token' = token
             \/ \E ts, reason : Revoke(ts, reason)
      PROVE  Going(s)
  BY <1>1, RevokeAddsNothing DEF Going, TypeOK, Idle
<1>2. ASSUME NEW q \in Requests, NEW u \in Users, ResetPassword(q, u) PROVE Going(s)
  BY <1>2 DEF ResetPassword, Going, TypeOK, Idle
<1>3. ASSUME NEW q \in Requests, NEW u \in Users, NEW s2 \in Sessions, Login(q, u, s2)
      PROVE  Going(s)
  BY <1>3 DEF Login, Going, TypeOK, Idle
<1>4. ASSUME NEW q \in Requests, NEW t \in Tokens, Refresh(q, t) PROVE Going(s)
  <2>1. CASE Consumable(t)
    <3>1. /\ token[t].state = "valid" /\ req'[q].session = token[t].session
          /\ \A q2 \in Requests \ {q} : req'[q2] = req[q2]
      <4>1. req' = [req EXCEPT ![q] = CarriedOn(t)] /\ token[t].state = "valid"
        BY <1>4, <2>1 DEF Refresh, Consumable, Usable
      <4>2. CarriedOn(t).session = token[t].session
        BY DEF CarriedOn, Idle
      <4> QED
        BY <4>1, <4>2 DEF TypeOK
    <3>2. \A t2 \in Tokens : token'[t2].state = "valid" => token'[t2] = token[t2]
      BY <1>4, <2>1 DEF Refresh, TypeOK, TokenRows
    <3> QED
      BY <3>1, <3>2 DEF Going
  <2>2. CASE ~Consumable(t)
    BY <1>4, <2>2 DEF Refresh, Going, TypeOK, Idle
  <2> QED
    BY <2>1, <2>2
<1>5. ASSUME NEW q \in Requests, NEW t \in Tokens, Issue(q, t) PROVE Going(s)
  <2>1. /\ req[q].pc = "issuing" /\ token'[t].session = req[q].session
        /\ \A t2 \in Tokens \ {t} : token'[t2] = token[t2]
        /\ req'[q].pc = "idle" /\ \A q2 \in Requests \ {q} : req'[q2] = req[q2]
    BY <1>5 DEF Issue, TypeOK, NoToken, Idle
  <2> QED
    BY <2>1 DEF Going
<1>6. CASE Purge
  <2>1. req' = req /\ \A t \in Tokens : token'[t].state = "valid" => token'[t] = token[t]
    BY <1>6 DEF Purge, TypeOK, TokenRows
  <2> QED
    BY <2>1 DEF Going
<1>7. CASE UNCHANGED <<token, req>>
  BY <1>7 DEF Going
<1>8. ASSUME NEW ts, NEW reason, Revoke(ts, reason), req' = req PROVE Going(s)
  BY <1>8, RevokeAddsNothing DEF Going
<1>9. ASSUME NEW t \in Tokens, Logout(t) PROVE Going(s)
  BY <1>8, <1>9 DEF Logout
<1>10. ASSUME NEW u \in Users, DeleteUser(u) PROVE Going(s)
  BY <1>8, <1>10 DEF DeleteUser
<1>11. ASSUME NEW u \in Users, NEW s2 \in Sessions \cup {None}, RevokeSessions(u, s2)
       PROVE  Going(s)
  BY <1>8, <1>11 DEF RevokeSessions
<1>12. ASSUME NEW u \in Users, NEW s2 \in Sessions, RevokeSession(u, s2) PROVE Going(s)
  BY <1>8, <1>12 DEF RevokeSession
<1>13. ASSUME NEW q \in Requests, IssueFails(q) \/ ReuseCheck(q) \/ ResetRevokes(q)
       PROVE  Going(s)
  BY <1>1, <1>13 DEF IssueFails, ReuseCheck, ResetRevokes
<1> QED
  BY <1>2, <1>3, <1>4, <1>5, <1>6, <1>7, <1>9, <1>10, <1>11, <1>12, <1>13
     DEF Next, Tick, vars

(* OverIsOver: once its chain is broken, a session is never resumed. *)
THEOREM NoRevival == Spec => OverIsOver
<1>1. Inv /\ [Next]_vars =>
        [\A s \in Sessions : opened[s] # None /\ ~Going(s) => ~Going(s)']_vars
  BY GoingStep DEF Inv
<1> QED
  BY <1>1, SessionInvariance, PTL DEF Spec, OverIsOver

-----------------------------------------------------------------------------
(***************************************************************************)
(* Part 2: Browser                                                         *)
(***************************************************************************)

Rotated(t) == token[t].state = "revoked" /\ token[t].reason = "rotated"
Answered(q) == call[q].pc = "answered" /\ call[q].answer = "ok"

(* A new token on its way to the tab that asked for it *)
Held(q) == Answered(q) /\ call[q].new # None

(* The call that has consumed a token, and when it was sent *)
Rotating(q, t) ==
  /\ call[q].token = t /\ call[q].at <= token[t].revokedAt
  /\ \/ call[q].pc = "serving" /\ req[q].pc = "issuing"
     \/ Answered(q)

-----------------------------------------------------------------------------
(* The parts of the invariant.                                             *)

CallFacts(q) ==
  /\ call[q].pc = "answered" => call[q].answer # "none"
  /\ call[q].pc = "sent" /\ call[q].kind # "login" => call[q].token # None
  /\ call[q].pc \in {"sent", "serving"} => call[q].new = None
  /\ q[2] = "user" /\ call[q].pc # "idle" => call[q].kind # "refresh"
  /\ req[q].pc # "idle" => call[q].pc = "serving"
  /\ req[q].pc = "rejected" => call[q].token = req[q].token /\ call[q].token # None
  /\ call[q].at <= now
  /\ call[q].pc # "idle" /\ ~trouble => now <= call[q].at + Prompt

(* Every token a tab holds was issued. *)
Known ==
  /\ storage.refresh # None => token[storage.refresh].state # "unused"
  /\ \A q \in Requests : call[q].token # None => token[call[q].token].state # "unused"

(* Nobody has presented a token that is on its way, or holds another copy. *)
HeldFacts(q) ==
  LET n == call[q].new IN
  Held(q) =>
    /\ token[n].state # "unused" /\ ~Rotated(n)
    /\ storage.refresh # n
    /\ \A r \in Requests : call[r].token # n
    /\ \A r \in Requests \ {q} : Held(r) => call[r].new # n

(* A stored token is rotated only while its successor is on its way. *)
StorageFollows ==
  ~trouble /\ storage.refresh # None /\ Rotated(storage.refresh) =>
    \E q \in Requests : Rotating(q, storage.refresh)

(* A token was presented at most Prompt after its rotation. *)
PresentedSoon(q) ==
  ~trouble /\ call[q].token # None /\ Rotated(call[q].token) =>
    call[q].at <= token[call[q].token].revokedAt + Prompt

BrowserInv ==
  /\ BrowserTypeOK /\ Inv
  /\ \A q \in Requests : CallFacts(q)
  /\ Known
  /\ \A q \in Requests : HeldFacts(q)
  /\ StorageFollows
  /\ \A q \in Requests : PresentedSoon(q)

-----------------------------------------------------------------------------
(* Types.                                                                  *)

LEMMA Numbers ==
  /\ Prompt \in Nat /\ AccessTtl \in Nat /\ ReuseGrace \in Nat
  /\ MaxDisturbances \in Nat \ {0} /\ Horizon \in Nat /\ 2 * Prompt <= ReuseGrace
  /\ None \notin Tokens
BY BrowserAssumption, TimesAssumption, NoneAssumption

LEMMA EmptyTypes ==
  /\ Empty \in Storage /\ Empty.refresh = None
  /\ NoCall \in CallStates /\ NoCall.pc = "idle" /\ NoCall.token = None
  /\ NoCall.at = 0
  /\ NoPage \in PageStates
<1>1. 0 \in Instants /\ 0 \in Times
  BY ZeroIsATime, Numbers DEF Instants
<1> QED
  BY <1>1 DEF Empty, Storage, NoCall, CallStates, NoPage, PageStates

LEMMA SentTypes ==
  ASSUME NEW kind \in {"refresh", "login", "logout"}, NEW t \in Tokens \cup {None},
         now \in Times
  PROVE  /\ Sent(kind, t) \in CallStates
         /\ Sent(kind, t).pc = "sent" /\ Sent(kind, t).kind = kind
         /\ Sent(kind, t).token = t /\ Sent(kind, t).at = now
         /\ Sent(kind, t).new = None
BY EmptyTypes DEF Sent, NoCall, CallStates

LEMMA DisturbedType ==
  ASSUME BrowserTypeOK, Disturb \/ disturbed' = disturbed
  PROVE  disturbed' \in 0..MaxDisturbances
<1>1. disturbed \in Nat /\ disturbed <= MaxDisturbances
  BY Numbers DEF BrowserTypeOK
<1> QED
  BY <1>1, Numbers DEF Disturb

LEMMA ReceivedType ==
  ASSUME BrowserTypeOK, NEW q \in Requests
  PROVE  Received(q) \in Storage /\ Received(q).refresh = call[q].new
<1>1. call[q] \in CallStates /\ now \in Times
  BY DEF BrowserTypeOK, TypeOK
<1>2. now + AccessTtl \in Instants
  BY <1>1, Numbers DEF Times, Instants
<1> QED
  BY <1>1, <1>2 DEF Received, Storage, CallStates

-----------------------------------------------------------------------------
(* Steps of the tabs: no row changes.                                      *)

(* A call is sent. *)
LEMMA SendKeeps ==
  ASSUME BrowserInv, BrowserTypeOK', UNCHANGED <<vars, trouble>>,
         storage' = storage \/ storage' = Empty,
         NEW q \in Requests, call[q].pc = "idle",
         NEW kind \in {"refresh", "login", "logout"}, NEW t \in Tokens \cup {None},
         t \in {None, storage.refresh}, kind # "login" => t # None,
         q[2] = "user" => kind # "refresh",
         call' = [call EXCEPT ![q] = Sent(kind, t)]
  PROVE  BrowserInv'
<1> USE DEF vars
<1>1. Inv' /\ now \in Times /\ now \in Nat
  BY DEF BrowserInv, Inv, TypeOK, TokenFacts, RequestFacts, SessionFacts, OneIssuer,
         ChainNeverForks, Times
<1> DEFINE c == Sent(kind, t)
<1>2. /\ call' = [call EXCEPT ![q] = c]
      /\ c.pc = "sent" /\ c.kind = kind /\ c.token = t /\ c.at = now
      /\ c.new = None
  BY <1>1, SentTypes
<1> HIDE DEF c
<1>3. call'[q] = c /\ \A r \in Requests \ {q} : call'[r] = call[r]
  BY <1>2 DEF BrowserInv, BrowserTypeOK
<1>4. \A r \in Requests : CallFacts(r)'
  BY <1>1, <1>2, <1>3, Numbers DEF BrowserInv, CallFacts
<1>5. Known'
  BY <1>2, <1>3, EmptyTypes DEF BrowserInv, Known
<1>6. \A r \in Requests : Held(r)' => Held(r) /\ call'[r] = call[r]
  BY <1>2, <1>3 DEF Held, Answered
<1>7. \A r \in Requests : HeldFacts(r)'
  <2> SUFFICES ASSUME NEW r \in Requests, Held(r)'
               PROVE  /\ token[call[r].new].state # "unused" /\ ~Rotated(call[r].new)
                      /\ storage'.refresh # call[r].new
                      /\ \A r2 \in Requests : call'[r2].token # call[r].new
                      /\ \A r2 \in Requests \ {r} : Held(r2)' => call'[r2].new # call[r].new
    BY <1>6 DEF HeldFacts, Rotated
  <2>1. Held(r) /\ HeldFacts(r) /\ call[r].new # None
    BY <1>6 DEF BrowserInv, Held
  <2> QED
    BY <1>2, <1>3, <1>6, <2>1, EmptyTypes DEF HeldFacts
<1>8. StorageFollows'
  <2> SUFFICES ASSUME ~trouble, storage'.refresh # None, Rotated(storage'.refresh)
               PROVE  \E r \in Requests : Rotating(r, storage.refresh)'
    BY DEF StorageFollows, Rotated
  <2>1. storage' = storage
    BY EmptyTypes
  <2>2. PICK r \in Requests : Rotating(r, storage.refresh)
    BY <2>1 DEF BrowserInv, StorageFollows
  <2>3. call'[r] = call[r]
    BY <2>2, <1>3 DEF Rotating, Answered
  <2> QED
    BY <2>1, <2>2, <2>3 DEF Rotating, Answered
<1>9. \A r \in Requests : PresentedSoon(r)'
  <2> SUFFICES ASSUME NEW r \in Requests, ~trouble, call'[r].token # None,
                      Rotated(call'[r].token)
               PROVE  call'[r].at <= token[call'[r].token].revokedAt + Prompt
    BY DEF PresentedSoon, Rotated
  <2>1. CASE r # q
    BY <1>3, <2>1 DEF BrowserInv, PresentedSoon
  <2>2. CASE r = q
    <3>1. call'[r].token = storage.refresh /\ t # None /\ call'[r].at = now
      BY <1>2, <1>3, <2>2
    <3>2. PICK r2 \in Requests : Rotating(r2, storage.refresh)
      BY <3>1 DEF BrowserInv, StorageFollows
    <3>3. now <= call[r2].at + Prompt
      BY <3>2 DEF BrowserInv, CallFacts, Rotating, Answered
    <3>4. /\ token[storage.refresh].revokedAt \in Nat /\ call[r2].at \in Nat
          /\ call[r2].at <= token[storage.refresh].revokedAt
      BY <3>1, <3>2 DEF BrowserInv, BrowserTypeOK, TypeOK, CallStates, TokenRows, Times,
                        Storage, Rotating
    <3> QED
      BY <1>1, <3>1, <3>3, <3>4, Numbers
  <2> QED
    BY <2>1, <2>2
<1> QED
  BY <1>1, <1>4, <1>5, <1>7, <1>8, <1>9 DEF BrowserInv

(* A call is over, and the storage is what its answer says. *)
LEMMA SettleKeeps ==
  ASSUME BrowserInv, BrowserTypeOK', UNCHANGED <<vars, trouble>>,
         NEW q \in Requests, call[q].pc = "answered",
         call' = [call EXCEPT ![q] = NoCall],
         \/ storage' = Empty
         \/ storage' = storage /\ call[q].answer # "ok"
         \/ storage' = Received(q) /\ call[q].answer = "ok"
  PROVE  BrowserInv'
<1> USE DEF vars
<1>1. Inv'
  BY DEF BrowserInv, Inv, TypeOK, TokenFacts, RequestFacts, SessionFacts, OneIssuer,
         ChainNeverForks, Times
<1>2. /\ call'[q] = NoCall /\ \A r \in Requests \ {q} : call'[r] = call[r]
      /\ NoCall.pc = "idle" /\ NoCall.token = None /\ req[q].pc = "idle"
  BY EmptyTypes DEF BrowserInv, BrowserTypeOK, CallFacts
<1>3. \/ storage'.refresh = None
      \/ storage' = storage /\ call[q].answer # "ok"
      \/ /\ storage'.refresh = call[q].new /\ call[q].new # None /\ Held(q)
  BY EmptyTypes, ReceivedType DEF BrowserInv, Held, Answered
<1>4. \A r \in Requests : CallFacts(r)'
  <2>1. 0 <= now
    BY DEF BrowserInv, BrowserTypeOK, TypeOK, Times
  <2> QED
    BY <1>2, <2>1, EmptyTypes DEF BrowserInv, CallFacts
<1>5. Known'
  BY <1>2, <1>3 DEF BrowserInv, Known, HeldFacts
<1>6. \A r \in Requests : Held(r)' => Held(r) /\ r # q /\ call'[r] = call[r]
  BY <1>2 DEF Held, Answered
<1>7. \A r \in Requests : HeldFacts(r)'
  <2> SUFFICES ASSUME NEW r \in Requests, Held(r)'
               PROVE  /\ token[call[r].new].state # "unused" /\ ~Rotated(call[r].new)
                      /\ storage'.refresh # call[r].new
                      /\ \A r2 \in Requests : call'[r2].token # call[r].new
                      /\ \A r2 \in Requests \ {r} : Held(r2)' => call'[r2].new # call[r].new
    BY <1>6 DEF HeldFacts, Rotated
  <2>1. Held(r) /\ HeldFacts(r) /\ call[r].new # None /\ r # q
    BY <1>6 DEF BrowserInv, Held
  <2> QED
    BY <1>2, <1>3, <1>6, <2>1 DEF HeldFacts
<1>8. StorageFollows'
  <2> SUFFICES ASSUME ~trouble, storage'.refresh # None, Rotated(storage'.refresh)
               PROVE  \E r \in Requests : Rotating(r, storage.refresh)'
    BY DEF StorageFollows, Rotated
  <2>1. storage' = storage /\ call[q].answer # "ok"
    BY <1>3 DEF BrowserInv, HeldFacts
  <2>2. PICK r \in Requests : Rotating(r, storage.refresh)
    BY <2>1 DEF BrowserInv, StorageFollows
  <2>3. r # q /\ call'[r] = call[r]
    BY <1>2, <2>1, <2>2 DEF Rotating, Answered
  <2> QED
    BY <2>1, <2>2, <2>3 DEF Rotating, Answered
<1>9. \A r \in Requests : PresentedSoon(r)'
  BY <1>2 DEF BrowserInv, PresentedSoon, Rotated
<1> QED
  BY <1>1, <1>4, <1>5, <1>7, <1>8, <1>9 DEF BrowserInv

(* No call changes; the storage may be cleared. *)
LEMMA ClearKeeps ==
  ASSUME BrowserInv, BrowserTypeOK', UNCHANGED <<vars, call, trouble>>,
         storage' = storage \/ storage' = Empty
  PROVE  BrowserInv'
<1> USE DEF vars
<1>1. Inv'
  BY DEF BrowserInv, Inv, TypeOK, TokenFacts, RequestFacts, SessionFacts, OneIssuer,
         ChainNeverForks, Times
<1>2. storage'.refresh = None \/ storage' = storage
  BY EmptyTypes
<1>3. \A r \in Requests : CallFacts(r)' /\ PresentedSoon(r)'
  BY DEF BrowserInv, CallFacts, PresentedSoon, Rotated
<1>4. Known'
  BY <1>2 DEF BrowserInv, Known
<1>5. \A r \in Requests : HeldFacts(r)'
  <2> SUFFICES ASSUME NEW r \in Requests, Held(r)
               PROVE  /\ token[call[r].new].state # "unused" /\ ~Rotated(call[r].new)
                      /\ storage'.refresh # call[r].new
                      /\ \A r2 \in Requests : call[r2].token # call[r].new
                      /\ \A r2 \in Requests \ {r} : Held(r2) => call[r2].new # call[r].new
    BY DEF HeldFacts, Rotated, Held, Answered
  <2> QED
    BY <1>2 DEF BrowserInv, HeldFacts, Held
<1>6. StorageFollows'
  <2> SUFFICES ASSUME ~trouble, storage'.refresh # None, Rotated(storage'.refresh)
               PROVE  \E r \in Requests : Rotating(r, storage.refresh)'
    BY DEF StorageFollows, Rotated
  <2> QED
    BY <1>2 DEF BrowserInv, StorageFollows, Rotating, Answered, Rotated
<1> QED
  BY <1>1, <1>3, <1>4, <1>5, <1>6 DEF BrowserInv

-----------------------------------------------------------------------------
(* The steps of a tab. *)

LEMMA StartKeeps ==
  ASSUME BrowserInv, BrowserTypeOK', UNCHANGED <<vars, storage, trouble>>,
         NEW p \in Tabs, NEW role \in {"shared", "silent"}, <<p, role>> \in Requests,
         StartRefresh(<<p, role>>)
  PROVE  BrowserInv'
<1> DEFINE q == <<p, role>>
<1>1. q \in Requests /\ q[2] # "user" /\ call[q].pc = "idle" /\ storage.refresh # None
  BY DEF StartRefresh
<1>2. call' = [call EXCEPT ![q] = Sent("refresh", storage.refresh)]
  BY DEF StartRefresh
<1>3. storage.refresh \in Tokens \cup {None}
  BY DEF BrowserInv, BrowserTypeOK, Storage
<1> HIDE DEF q
<1> QED
  BY <1>1, <1>2, <1>3, SendKeeps

LEMMA StartType ==
  ASSUME BrowserTypeOK, NEW q \in Requests, StartRefresh(q)
  PROVE  call' \in [Requests -> CallStates]
<1>1. storage.refresh \in Tokens \cup {None} /\ now \in Times
  BY DEF BrowserTypeOK, Storage, TypeOK
<1>2. Sent("refresh", storage.refresh) \in CallStates
  BY <1>1, SentTypes
<1> QED
  BY <1>2 DEF StartRefresh, BrowserTypeOK

LEMMA SharedIsRequest ==
  ASSUME NEW p \in Tabs
  PROVE  <<p, "shared">> \in Requests
BY BrowserAssumption

LEMMA JoinKeeps ==
  ASSUME BrowserInv, UNCHANGED <<vars, storage, disturbed, trouble>>,
         page' \in [Tabs -> PageStates], NEW p \in Tabs, JoinShared(p)
  PROVE  BrowserInv'
<1>1. call' \in [Requests -> CallStates]
  BY StartType, SharedIsRequest DEF JoinShared, BrowserInv, BrowserTypeOK
<1>2. BrowserTypeOK'
  BY <1>1 DEF BrowserInv, BrowserTypeOK, TypeOK, vars
<1> QED
  BY <1>2, StartKeeps, SharedIsRequest, ClearKeeps DEF JoinShared

LEMMA RefreshesKeep ==
  ASSUME BrowserInv, NEW p \in Tabs, SilentRefresh(p) \/ OtherRequest(p)
  PROVE  BrowserInv'
<1>1. CASE SilentRefresh(p)
  <2>1. call' \in [Requests -> CallStates]
    BY <1>1, StartType DEF SilentRefresh, BrowserInv
  <2>2. BrowserTypeOK'
    BY <1>1, <2>1 DEF SilentRefresh, BrowserInv, BrowserTypeOK, TypeOK, vars
  <2> QED
    BY <1>1, <2>2, StartKeeps DEF SilentRefresh
<1>2. CASE OtherRequest(p)
  BY <1>2, JoinKeeps DEF OtherRequest, JoinShared, BrowserInv, BrowserTypeOK
<1> QED
  BY <1>1, <1>2

LEMMA PagesKeep ==
  ASSUME BrowserInv, NEW p \in Tabs,
         OpenPage(p) \/ PageAnswered(p) \/ PageRefused(p) \/ PageRefusedAgain(p)
  PROVE  BrowserInv'
<1>1. /\ page \in [Tabs -> PageStates] /\ page[p] \in PageStates
      /\ storage.access \in Instants
  BY DEF BrowserInv, BrowserTypeOK, Storage
<1>2. page' \in [Tabs -> PageStates]
  <2>1. \A a \in Instants : [pc |-> "sent", access |-> a] \in PageStates
    BY DEF PageStates
  <2>2. \A pc \in {"refreshing", "retrying"} : [page[p] EXCEPT !.pc = pc] \in PageStates
    BY <1>1 DEF PageStates
  <2> QED
    BY <1>1, <2>1, <2>2, EmptyTypes
       DEF OpenPage, PageAnswered, PageRefused, PageRefusedAgain
<1>3. CASE UNCHANGED call
  <2>1. storage' = storage \/ storage' = Empty
    BY <1>3 DEF OpenPage, PageAnswered, PageRefused, PageRefusedAgain
  <2>2. BrowserTypeOK' /\ UNCHANGED <<vars, trouble>>
    BY <1>2, <1>3, <2>1, EmptyTypes
       DEF OpenPage, PageAnswered, PageRefused, PageRefusedAgain, BrowserInv,
           BrowserTypeOK, TypeOK, vars
  <2> QED
    BY <1>3, <2>1, <2>2, ClearKeeps
<1>4. CASE JoinShared(p) /\ UNCHANGED <<vars, storage, disturbed, trouble>>
  BY <1>2, <1>4, JoinKeeps
<1> QED
  BY <1>3, <1>4 DEF OpenPage, PageAnswered, PageRefused, PageRefusedAgain

LEMMA StoredAfterIs ==
  ASSUME BrowserInv, NEW q \in Requests, call[q].pc = "answered"
  PROVE  /\ StoredAfter(q) \in Storage
         /\ \/ StoredAfter(q) = Empty
            \/ StoredAfter(q) = storage /\ call[q].answer # "ok"
            \/ StoredAfter(q) = Received(q) /\ call[q].answer = "ok"
<1>1. /\ storage \in Storage /\ Empty \in Storage /\ Received(q) \in Storage
      /\ call[q].answer \in {"ok", "lost", "rejected", "failed"}
  BY EmptyTypes, ReceivedType DEF BrowserInv, BrowserTypeOK, CallStates, CallFacts
<1>2. CASE call[q].answer = "ok"
  BY <1>1, <1>2 DEF StoredAfter
<1>3. CASE call[q].answer = "lost"
  BY <1>1, <1>3 DEF StoredAfter
<1>4. CASE call[q].answer \in {"rejected", "failed"}
  BY <1>1, <1>4 DEF StoredAfter, StoredIfRejected
<1> QED
  BY <1>1, <1>2, <1>3, <1>4

(* How the page goes on keeps its type. *)
LEMMA PageGoesOn ==
  ASSUME BrowserTypeOK, storage' \in Storage, NEW p \in Tabs, NEW g \in BOOLEAN, NEW h \in BOOLEAN,
         NEW b \in BOOLEAN,
         page' = [page EXCEPT ![p] =
           CASE g -> NoPage
             [] h -> [pc |-> IF page[p].pc = "refreshing" THEN "sent" ELSE "resent",
                      access |-> IF b THEN page[p].access ELSE storage'.access]
             [] OTHER -> page[p]]
  PROVE  page' \in [Tabs -> PageStates]
<1> DEFINE x == [pc |-> IF page[p].pc = "refreshing" THEN "sent" ELSE "resent",
                 access |-> IF b THEN page[p].access ELSE storage'.access]
           y == CASE g -> NoPage [] h -> x [] OTHER -> page[p]
<1>1. storage'.access \in Instants /\ page[p].access \in Instants
  BY DEF Storage, BrowserTypeOK, PageStates
<1>2. x \in PageStates
  BY <1>1 DEF PageStates
<1>3. NoPage \in PageStates /\ page[p] \in PageStates
  BY EmptyTypes DEF BrowserTypeOK
<1> HIDE DEF x
<1>4. y \in PageStates
  BY <1>2, <1>3
<1>5. page' = [page EXCEPT ![p] = y]
  BY DEF x
<1> HIDE DEF y
<1> QED
  BY <1>4, <1>5 DEF BrowserTypeOK

LEMMA SettlesKeep ==
  ASSUME BrowserInv, NEW p \in Tabs,
         SettleSilent(p) \/ SettleShared(p) \/ SettleUser(p)
  PROVE  BrowserInv'
<1>0. ASSUME NEW q \in Requests PROVE [call EXCEPT ![q] = NoCall] \in [Requests -> CallStates]
  BY EmptyTypes DEF BrowserInv, BrowserTypeOK
<1>1. CASE SettleSilent(p)
  <2> DEFINE q == <<p, "silent">>
  <2>1. /\ q \in Requests /\ call[q].pc = "answered" /\ storage' = StoredAfter(q)
        /\ call' = [call EXCEPT ![q] = NoCall]
        /\ UNCHANGED <<vars, page, disturbed, trouble>>
    BY <1>1 DEF SettleSilent
  <2> HIDE DEF q
  <2>2. BrowserTypeOK'
    BY <1>0, <2>1, StoredAfterIs DEF BrowserInv, BrowserTypeOK, TypeOK, vars
  <2> QED
    BY <2>1, <2>2, StoredAfterIs, SettleKeeps
<1>2. CASE SettleShared(p)
  <2> DEFINE q == <<p, "shared">>
             givesUp == page[p].pc = "retrying" /\ ~Refreshed(q)
             goesOn == \/ page[p].pc = "refreshing"
                       \/ page[p].pc = "retrying" /\ Refreshed(q)
             bare == page[p].pc = "retrying" /\ Refreshed(q) /\ storage'.access = 0
  <2>1. /\ q \in Requests /\ call[q].pc = "answered"
        /\ storage' = IF givesUp THEN Empty ELSE StoredAfter(q)
        /\ call' = [call EXCEPT ![q] = NoCall]
        /\ UNCHANGED <<vars, trouble>>
        /\ page' = [page EXCEPT ![p] =
             CASE givesUp -> NoPage
               [] goesOn -> [pc |-> IF page[p].pc = "refreshing" THEN "sent" ELSE "resent",
                             access |-> IF bare THEN page[p].access ELSE storage'.access]
               [] OTHER -> page[p]]
        /\ disturbed' \in {disturbed, 1}
    BY <1>2 DEF SettleShared
  <2>2. disturbed' \in 0..MaxDisturbances
    BY <2>1, Numbers DEF BrowserInv, BrowserTypeOK
  <2>3. givesUp \in BOOLEAN /\ goesOn \in BOOLEAN /\ bare \in BOOLEAN
    OBVIOUS
  <2> HIDE DEF q, givesUp, goesOn, bare
  <2>4. /\ storage' \in Storage
        /\ \/ storage' = Empty
           \/ storage' = storage /\ call[q].answer # "ok"
           \/ storage' = Received(q) /\ call[q].answer = "ok"
    BY <2>1, StoredAfterIs, EmptyTypes
  <2>5. page' \in [Tabs -> PageStates]
    BY <2>1, <2>3, <2>4, PageGoesOn DEF BrowserInv
  <2>6. BrowserTypeOK'
    BY <1>0, <2>1, <2>2, <2>4, <2>5 DEF BrowserInv, BrowserTypeOK, TypeOK, vars
  <2> QED
    BY <2>1, <2>4, <2>6, SettleKeeps
<1>3. CASE SettleUser(p)
  <2> DEFINE q == <<p, "user">>
  <2>1. /\ q \in Requests /\ call[q].pc = "answered" /\ q[2] = "user"
        /\ call' = [call EXCEPT ![q] = NoCall]
        /\ UNCHANGED <<vars, page, disturbed, trouble>>
        /\ storage' = CASE call[q].kind = "logout" -> Empty
                        [] call[q].kind = "login" /\ call[q].answer = "ok" -> Received(q)
                        [] OTHER -> storage
    BY <1>3 DEF SettleUser
  <2> HIDE DEF q
  <2>2. call[q].kind \in {"login", "logout"}
    BY <2>1 DEF BrowserInv, BrowserTypeOK, CallStates, CallFacts
  <2>3. /\ storage' \in Storage
        /\ \/ storage' = Empty
           \/ storage' = storage /\ call[q].answer # "ok"
           \/ storage' = Received(q) /\ call[q].answer = "ok"
    <3>1. storage \in Storage /\ Empty \in Storage /\ Received(q) \in Storage
      BY <2>1, EmptyTypes, ReceivedType DEF BrowserInv, BrowserTypeOK
    <3>2. CASE call[q].kind = "logout"
      BY <2>1, <3>1, <3>2
    <3>3. CASE call[q].kind = "login" /\ call[q].answer = "ok"
      BY <2>1, <3>1, <3>3
    <3>4. CASE call[q].kind = "login" /\ call[q].answer # "ok"
      BY <2>1, <3>1, <3>4
    <3> QED
      BY <2>2, <3>2, <3>3, <3>4
  <2>4. BrowserTypeOK'
    BY <1>0, <2>1, <2>3 DEF BrowserInv, BrowserTypeOK, TypeOK, vars
  <2> QED
    BY <2>1, <2>3, <2>4, SettleKeeps
<1> QED
  BY <1>1, <1>2, <1>3

LEMMA UserKeeps ==
  ASSUME BrowserInv, NEW p \in Tabs, StartLogin(p) \/ StartLogout(p)
  PROVE  BrowserInv'
<1> DEFINE q == <<p, "user">>
<1>0. q[2] = "user" /\ now \in Times /\ storage.refresh \in Tokens \cup {None}
      /\ call \in [Requests -> CallStates]
  BY DEF BrowserInv, BrowserTypeOK, TypeOK, Storage
<1>1. disturbed' \in 0..MaxDisturbances
  BY DisturbedType DEF StartLogin, StartLogout, BrowserInv
<1>2. CASE StartLogin(p)
  <2>1. /\ q \in Requests /\ call[q].pc = "idle"
        /\ call' = [call EXCEPT ![q] = Sent("login", None)]
        /\ UNCHANGED <<vars, storage, page, trouble>>
    BY <1>2 DEF StartLogin
  <2> HIDE DEF q
  <2>2. call' \in [Requests -> CallStates]
    BY <1>0, <2>1, SentTypes
  <2>3. BrowserTypeOK'
    BY <1>1, <2>1, <2>2 DEF BrowserInv, BrowserTypeOK, TypeOK, vars
  <2>4. PICK kind \in {"refresh", "login", "logout"}, t \in Tokens \cup {None} :
          kind = "login" /\ t = None
    OBVIOUS
  <2>5. UNCHANGED <<vars, trouble>> /\ storage' = storage
    BY <2>1
  <2>6. call' = [call EXCEPT ![q] = Sent(kind, t)]
    BY <2>1, <2>4
  <2>7. q[2] = "user" => kind # "refresh"
    BY <2>4
  <2> QED
    BY <2>1, <2>3, <2>4, <2>5, <2>6, <2>7, SendKeeps
<1>3. CASE StartLogout(p) /\ storage.refresh # None
  <2>1. /\ q \in Requests /\ call[q].pc = "idle"
        /\ call' = [call EXCEPT ![q] = Sent("logout", storage.refresh)]
        /\ UNCHANGED <<vars, storage, page, trouble>>
    BY <1>3 DEF StartLogout
  <2> HIDE DEF q
  <2>2. call' \in [Requests -> CallStates]
    BY <1>0, <2>1, SentTypes
  <2>3. BrowserTypeOK'
    BY <1>1, <2>1, <2>2 DEF BrowserInv, BrowserTypeOK, TypeOK, vars
  <2> QED
    BY <1>0, <1>3, <2>1, <2>3, SendKeeps
<1>4. CASE StartLogout(p) /\ storage.refresh = None
  <2>1. storage' = Empty /\ UNCHANGED <<vars, call, page, trouble>>
    BY <1>4 DEF StartLogout
  <2>2. BrowserTypeOK'
    BY <1>1, <2>1, EmptyTypes DEF BrowserInv, BrowserTypeOK, TypeOK, vars
  <2> QED
    BY <2>1, <2>2, ClearKeeps
<1> QED
  BY <1>2, <1>3, <1>4

-----------------------------------------------------------------------------
(* Steps of the server and the network: at most one call changes. *)

LEMMA ServerKeeps ==
  ASSUME BrowserInv, BrowserTypeOK', Inv', UNCHANGED <<storage, now>>, trouble => trouble',
         NEW q \in Requests, CallFacts(q)',
         \A r \in Requests \ {q} : call'[r] = call[r] /\ req'[r] = req[r],
         call'[q].token = call[q].token, call'[q].at = call[q].at,
         \A t \in Tokens :
           /\ token[t].state # "unused" => token'[t].state # "unused"
           /\ Rotated(t)' => \/ Rotated(t) /\ token'[t].revokedAt = token[t].revokedAt
                             \/ Rotating(q, t)' /\ token'[t].revokedAt = now,
         \A t \in Tokens : Rotating(q, t) /\ Rotated(t) => Rotating(q, t)' \/ trouble',
         Held(q)' => \/ Held(q) /\ call'[q].new = call[q].new
                     \/ /\ token[call'[q].new].state = "unused"
                        /\ token'[call'[q].new].state = "valid"
  PROVE  BrowserInv'
<1>0. /\ storage.refresh \in Tokens \cup {None}
      /\ \A r \in Requests : call[r].token \in Tokens \cup {None} /\ call[r].at \in Times
      /\ \A r \in Requests : call'[r].new \in Tokens \cup {None}
      /\ \A r \in Requests : call'[r].token = call[r].token /\ call'[r].at = call[r].at
  BY DEF BrowserInv, BrowserTypeOK, Storage, CallStates
<1>1. \A r \in Requests : CallFacts(r)'
  BY DEF BrowserInv, CallFacts
<1>2. Known'
  BY <1>0 DEF BrowserInv, Known
<1>3. \A r \in Requests \ {q} : Held(r)' <=> Held(r)
  BY DEF Held, Answered
<1>4. ASSUME NEW r \in Requests, Held(r)'
      PROVE  HeldFacts(r)'
  <2>1. PICK n \in Tokens : n = call'[r].new
    BY <1>0, <1>4 DEF Held
  <2>2. CASE Held(r) /\ call'[r].new = call[r].new
    <3>1. /\ token[n].state # "unused" /\ ~Rotated(n) /\ storage.refresh # n
          /\ \A r2 \in Requests : call[r2].token # n
          /\ \A r2 \in Requests \ {r} : Held(r2) => call[r2].new # n
      BY <2>1, <2>2 DEF BrowserInv, HeldFacts
    <3>2. token'[n].state # "unused"
      BY <2>1, <3>1
    <3>3. ~Rotated(n)'
      BY <2>1, <3>1, <1>0 DEF Rotating, Rotated
    <3>4. \A r2 \in Requests \ {r} : Held(r2)' => call'[r2].new # n
      BY <1>3, <2>1, <2>2, <3>1
    <3> QED
      BY <1>0, <2>1, <3>1, <3>2, <3>3, <3>4 DEF HeldFacts, Rotated
  <2>3. CASE r = q /\ token[n].state = "unused" /\ token'[n].state = "valid"
    <3>1. storage.refresh # n /\ \A r2 \in Requests : call[r2].token # n
      BY <2>1, <2>3, Numbers DEF BrowserInv, Known
    <3>2. \A r2 \in Requests \ {r} : Held(r2)' => call'[r2].new # n
      BY <1>3, <2>1, <2>3 DEF BrowserInv, HeldFacts
    <3> QED
      BY <1>0, <2>1, <2>3, <3>1, <3>2 DEF HeldFacts, Rotated
  <2> QED
    BY <1>3, <1>4, <2>1, <2>2, <2>3
<1>5. \A r \in Requests : HeldFacts(r)'
  BY <1>4 DEF HeldFacts
<1>6. StorageFollows'
  <2> SUFFICES ASSUME ~trouble', storage.refresh # None, Rotated(storage.refresh)'
               PROVE  \E r \in Requests : Rotating(r, storage.refresh)'
    BY DEF StorageFollows, Rotated
  <2>1. storage.refresh \in Tokens
    BY <1>0
  <2>2. CASE Rotating(q, storage.refresh)'
    BY <2>2
  <2>3. CASE /\ Rotated(storage.refresh)
             /\ token'[storage.refresh].revokedAt = token[storage.refresh].revokedAt
    <3>1. PICK r \in Requests : Rotating(r, storage.refresh)
      BY <2>3 DEF BrowserInv, StorageFollows
    <3>2. CASE r = q
      BY <2>1, <2>3, <3>1, <3>2 DEF Rotating
    <3>3. CASE r # q
      BY <2>3, <3>1, <3>3 DEF Rotating, Answered
    <3> QED
      BY <3>2, <3>3
  <2> QED
    BY <2>1, <2>2, <2>3 DEF Rotating, Rotated
<1>7. \A r \in Requests : PresentedSoon(r)'
  <2> SUFFICES ASSUME NEW r \in Requests, ~trouble', call[r].token # None,
                      Rotated(call[r].token)'
               PROVE  call[r].at <= token'[call[r].token].revokedAt + Prompt
    BY <1>0 DEF PresentedSoon, Rotated
  <2>1. call[r].token \in Tokens /\ call[r].at \in Nat
    BY <1>0 DEF Times
  <2>2. CASE /\ Rotated(call[r].token)
             /\ token'[call[r].token].revokedAt = token[call[r].token].revokedAt
    BY <2>2 DEF BrowserInv, PresentedSoon
  <2>3. CASE token'[call[r].token].revokedAt = now
    <3>1. call[r].at <= now /\ now \in Nat
      BY DEF BrowserInv, CallFacts, BrowserTypeOK, TypeOK, Times
    <3> QED
      BY <2>1, <2>3, <3>1, Numbers
  <2> QED
    BY <2>1, <2>2, <2>3
<1> QED
  BY <1>1, <1>2, <1>5, <1>6, <1>7 DEF BrowserInv

(* What a revocation does to rows. *)
LEMMA RevokedRows ==
  ASSUME TypeOK, NEW ts, Revoke(ts, "revoked")
  PROVE  \A t \in Tokens :
           /\ token[t].state # "unused" => token'[t].state # "unused"
           /\ Rotated(t)' => Rotated(t) /\ token'[t].revokedAt = token[t].revokedAt
<1> SUFFICES ASSUME NEW t \in Tokens
             PROVE  /\ token[t].state # "unused" => token'[t].state # "unused"
                    /\ Rotated(t)' => /\ Rotated(t)
                                      /\ token'[t].revokedAt = token[t].revokedAt
  OBVIOUS
<1>1. token[t] \in TokenRows
  BY DEF TypeOK
<1>2. \/ token'[t] = token[t]
      \/ token'[t] = [token[t] EXCEPT !.state = "revoked", !.revokedAt = now,
                                      !.reason = "revoked"]
  BY DEF Revoke
<1> QED
  BY <1>1, <1>2 DEF TokenRows, Rotated

(* A call whose pc and answer change keeps its type. *)
LEMMA AnswerType ==
  ASSUME BrowserTypeOK, NEW q \in Requests, NEW pc \in {"serving", "answered"},
         NEW a \in {"none", "ok", "rejected", "failed", "lost"},
         call' = [call EXCEPT ![q].pc = pc, ![q].answer = a]
  PROVE  /\ call' \in [Requests -> CallStates]
         /\ \A r \in Requests \ {q} : call'[r] = call[r]
         /\ call'[q].pc = pc /\ call'[q].answer = a
         /\ call'[q].kind = call[q].kind /\ call'[q].token = call[q].token
         /\ call'[q].at = call[q].at /\ call'[q].new = call[q].new
<1>1. call \in [Requests -> CallStates] /\ call[q] \in CallStates
  BY DEF BrowserTypeOK
<1> DEFINE c == [call[q] EXCEPT !.pc = pc, !.answer = a]
<1>2. /\ c \in CallStates /\ c.pc = pc /\ c.answer = a /\ c.kind = call[q].kind
      /\ c.token = call[q].token /\ c.at = call[q].at /\ c.new = call[q].new
  BY <1>1 DEF CallStates
<1>3. call' = [call EXCEPT ![q] = c]
  BY <1>1
<1> HIDE DEF c
<1> QED
  BY <1>1, <1>2, <1>3

LEMMA ServingType ==
  ASSUME BrowserTypeOK, NEW q \in Requests, call' = [call EXCEPT ![q].pc = "serving"]
  PROVE  /\ call' \in [Requests -> CallStates]
         /\ \A r \in Requests \ {q} : call'[r] = call[r]
         /\ call'[q].pc = "serving" /\ call'[q].answer = call[q].answer
         /\ call'[q].kind = call[q].kind /\ call'[q].token = call[q].token
         /\ call'[q].at = call[q].at /\ call'[q].new = call[q].new
<1>1. call \in [Requests -> CallStates] /\ call[q] \in CallStates
  BY DEF BrowserTypeOK
<1> DEFINE c == [call[q] EXCEPT !.pc = "serving"]
<1>2. /\ c \in CallStates /\ c.pc = "serving" /\ c.answer = call[q].answer
      /\ c.kind = call[q].kind
      /\ c.token = call[q].token /\ c.at = call[q].at /\ c.new = call[q].new
  BY <1>1 DEF CallStates
<1>3. call' = [call EXCEPT ![q] = c]
  BY <1>1
<1> HIDE DEF c
<1> QED
  BY <1>1, <1>2, <1>3

(* The facts of a call that the server has taken or answered. *)
LEMMA CallFactsStay ==
  ASSUME BrowserInv, NEW q \in Requests, call[q].pc # "idle", now' = now, trouble => trouble',
         call'[q].pc \in {"serving", "answered"},
         call'[q].pc = "answered" => call'[q].answer # "none" /\ req'[q].pc = "idle",
         call'[q].pc = "serving" => call'[q].new = None,
         call'[q].kind = call[q].kind, call'[q].token = call[q].token,
         call'[q].at = call[q].at,
         req'[q].pc = "rejected" => req'[q].token = call[q].token /\ call[q].token # None
  PROVE  CallFacts(q)'
BY DEF BrowserInv, CallFacts

LEMMA RefreshArrives ==
  ASSUME BrowserInv, NEW q \in Requests, call[q].pc = "sent", call[q].kind = "refresh",
         Refresh(q, call[q].token), call' = [call EXCEPT ![q].pc = "serving"],
         UNCHANGED <<storage, page, disturbed, trouble>>
  PROVE  BrowserInv'
<1>1. PICK t \in Tokens : t = call[q].token
  BY DEF BrowserInv, BrowserTypeOK, CallStates, CallFacts
<1>2. Refresh(q, t) /\ Inv /\ BrowserTypeOK /\ TypeOK
  BY <1>1 DEF BrowserInv, Inv
<1>3. Inv'
  BY <1>2, RefreshInv
<1>4. /\ call' \in [Requests -> CallStates]
      /\ \A r \in Requests \ {q} : call'[r] = call[r]
      /\ call'[q].pc = "serving" /\ call'[q].kind = call[q].kind
      /\ call'[q].token = t /\ call'[q].at = call[q].at /\ call'[q].new = None
  BY <1>1, <1>2, ServingType DEF BrowserInv, CallFacts
<1>5. BrowserTypeOK'
  BY <1>2, <1>3, <1>4 DEF BrowserTypeOK, Inv
<1>6. /\ now' = now /\ t # None /\ call[q].at <= now
      /\ \A r \in Requests \ {q} : req'[r] = req[r]
  BY <1>2, Numbers DEF Refresh, BrowserInv, CallFacts, TypeOK
<1>7. CASE Consumable(t)
  <2>1. /\ token' = [token EXCEPT ![t].state = "revoked", ![t].revokedAt = now,
                                  ![t].reason = "rotated"]
        /\ req' = [req EXCEPT ![q] = CarriedOn(t)] /\ CarriedOn(t).pc = "issuing"
    BY <1>2, <1>7 DEF Refresh, CarriedOn, Idle
  <2>2. /\ token'[t].revokedAt = now /\ token'[t].state = "revoked"
        /\ \A t2 \in Tokens \ {t} : token'[t2] = token[t2]
        /\ req'[q].pc = "issuing"
    BY <2>1, <1>2 DEF TypeOK, TokenRows
  <2>3. Rotating(q, t)'
    BY <1>4, <1>6, <2>2 DEF Rotating
  <2>4. CallFacts(q)'
    BY <1>1, <1>4, <1>6, <2>2, CallFactsStay
  <2>5. \A t2 \in Tokens :
           /\ token[t2].state # "unused" => token'[t2].state # "unused"
           /\ Rotated(t2)' => \/ Rotated(t2) /\ token'[t2].revokedAt = token[t2].revokedAt
                              \/ Rotating(q, t2)' /\ token'[t2].revokedAt = now
    BY <2>2, <2>3 DEF Rotated
  <2> QED
    BY <1>1, <1>3, <1>4, <1>5, <1>6, <2>4, <2>5, ServerKeeps DEF Rotating, Held, Answered
<1>8. CASE ~Consumable(t)
  <2>1. /\ token' = token
        /\ req' = [req EXCEPT ![q] = [Idle EXCEPT !.pc = "rejected", !.token = t]]
    BY <1>2, <1>8 DEF Refresh
  <2>2. req'[q].pc = "rejected" /\ req'[q].token = t
    BY <1>2, <2>1 DEF TypeOK, Idle
  <2>3. CallFacts(q)'
    BY <1>1, <1>4, <1>6, <2>2, CallFactsStay
  <2> QED
    BY <1>1, <1>3, <1>4, <1>5, <1>6, <2>1, <2>3, ServerKeeps
       DEF Rotating, Held, Answered, Rotated
<1> QED
  BY <1>7, <1>8

LEMMA LoginArrives ==
  ASSUME BrowserInv, NEW q \in Requests, call[q].pc = "sent",
         NEW u \in Users, NEW s \in Sessions, Login(q, u, s),
         call' = [call EXCEPT ![q].pc = "serving"],
         UNCHANGED <<storage, page, disturbed, trouble>>
  PROVE  BrowserInv'
<1>1. Inv /\ BrowserTypeOK /\ TypeOK /\ Inv'
  BY LoginInv DEF BrowserInv, Inv
<1>2. /\ call' \in [Requests -> CallStates]
      /\ \A r \in Requests \ {q} : call'[r] = call[r]
      /\ call'[q].pc = "serving" /\ call'[q].kind = call[q].kind
      /\ call'[q].token = call[q].token /\ call'[q].at = call[q].at
      /\ call'[q].new = None
  BY <1>1, ServingType DEF BrowserInv, CallFacts
<1>3. BrowserTypeOK'
  BY <1>1, <1>2 DEF BrowserTypeOK, Inv
<1>4. /\ UNCHANGED <<token, now>> /\ req'[q].pc = "issuing"
      /\ \A r \in Requests \ {q} : req'[r] = req[r]
  BY <1>1 DEF Login, TypeOK, Idle
<1>5. CallFacts(q)'
  BY <1>2, <1>4, CallFactsStay
<1> QED
  BY <1>1, <1>2, <1>3, <1>4, <1>5, ServerKeeps DEF Rotating, Held, Answered, Rotated

LEMMA LogoutArrives ==
  ASSUME BrowserInv, NEW q \in Requests, call[q].pc = "sent", call[q].kind = "logout",
         Logout(call[q].token), Answer(q, "ok"),
         UNCHANGED <<storage, page, disturbed, trouble>>
  PROVE  BrowserInv'
<1>1. PICK t \in Tokens : t = call[q].token
  BY DEF BrowserInv, BrowserTypeOK, CallStates, CallFacts
<1>2. Inv /\ BrowserTypeOK /\ TypeOK /\ req[q].pc = "idle"
  BY DEF BrowserInv, Inv, CallFacts
<1>3. Inv'
  BY <1>1, <1>2, InvStep DEF Next
<1>4. /\ call' \in [Requests -> CallStates]
      /\ \A r \in Requests \ {q} : call'[r] = call[r]
      /\ call'[q].pc = "answered" /\ call'[q].answer = "ok"
      /\ call'[q].kind = call[q].kind /\ call'[q].token = call[q].token
      /\ call'[q].at = call[q].at /\ call'[q].new = None
  <2>1. call[q].new = None
    BY DEF BrowserInv, CallFacts
  <2> QED
    BY <1>2, <2>1, AnswerType DEF Answer
<1>5. UNCHANGED <<req, now>> /\ Revoke(TokensOf(token[t].session), "revoked")
  BY <1>1 DEF Logout
<1>6. BrowserTypeOK'
  BY <1>2, <1>3, <1>4 DEF BrowserTypeOK, Inv
<1>7. CallFacts(q)'
  BY <1>2, <1>4, <1>5, CallFactsStay
<1>8. \A t2 \in Tokens :
         /\ token[t2].state # "unused" => token'[t2].state # "unused"
         /\ Rotated(t2)' => Rotated(t2) /\ token'[t2].revokedAt = token[t2].revokedAt
  BY <1>2, <1>5, RevokedRows
<1> QED
  BY <1>3, <1>4, <1>5, <1>6, <1>7, <1>8, ServerKeeps DEF Rotating, Held, Answered

LEMMA IssuesKeep ==
  ASSUME BrowserInv, NEW q \in Requests, ServerIssues(q)
  PROVE  BrowserInv'
<1>1. PICK t \in Tokens :
        /\ Issue(q, t)
        /\ call' = [call EXCEPT ![q].pc = "answered", ![q].answer = "ok", ![q].new = t,
                                ![q].access = now + AccessTtl]
  BY DEF ServerIssues
<1>2. /\ Inv /\ BrowserTypeOK /\ TypeOK /\ call[q].pc = "serving"
      /\ call \in [Requests -> CallStates] /\ call[q] \in CallStates
      /\ UNCHANGED <<storage, page, disturbed, trouble>>
  BY DEF BrowserInv, Inv, BrowserTypeOK, ServerIssues
<1>3. Inv'
  BY <1>1, <1>2, IssueInv
<1>4. /\ now' = now /\ req[q].pc = "issuing" /\ req'[q].pc = "idle"
      /\ \A r \in Requests \ {q} : req'[r] = req[r]
      /\ token[t].state = "unused" /\ token'[t].state = "valid"
      /\ \A t2 \in Tokens \ {t} : token'[t2] = token[t2]
  BY <1>1, <1>2 DEF Issue, TypeOK, Idle, NoToken
<1>5. PICK a \in Instants : a = now + AccessTtl
  BY <1>2, Numbers DEF TypeOK, Times, Instants
<1> DEFINE c == [call[q] EXCEPT !.pc = "answered", !.answer = "ok", !.new = t, !.access = a]
<1>6. /\ c \in CallStates /\ c.pc = "answered" /\ c.answer = "ok" /\ c.new = t
      /\ c.kind = call[q].kind /\ c.token = call[q].token /\ c.at = call[q].at
  BY <1>2 DEF CallStates
<1>7. call' = [call EXCEPT ![q] = c]
  BY <1>1, <1>2, <1>5
<1> HIDE DEF c
<1>8. call'[q] = c /\ \A r \in Requests \ {q} : call'[r] = call[r]
  BY <1>2, <1>7
<1>9. BrowserTypeOK'
  BY <1>2, <1>3, <1>6, <1>7 DEF BrowserTypeOK, Inv
<1>10. CallFacts(q)'
  BY <1>2, <1>4, <1>6, <1>8, CallFactsStay
<1>11. \A t2 \in Tokens :
          /\ token[t2].state # "unused" => token'[t2].state # "unused"
          /\ Rotated(t2)' => Rotated(t2) /\ token'[t2].revokedAt = token[t2].revokedAt
  BY <1>4 DEF Rotated
<1>12. ASSUME NEW t2 \in Tokens, Rotating(q, t2), Rotated(t2)
       PROVE  Rotating(q, t2)'
  <2>1. t2 # t /\ token'[t2] = token[t2]
    BY <1>4, <1>12 DEF Rotated
  <2> QED
    BY <1>6, <1>8, <1>12, <2>1 DEF Rotating, Answered
<1> QED
  BY <1>2, <1>3, <1>4, <1>6, <1>8, <1>9, <1>10, <1>11, <1>12, ServerKeeps

LEMMA RejectsKeep ==
  ASSUME BrowserInv, NEW q \in Requests, ServerRejects(q)
  PROVE  BrowserInv'
<1>1. /\ call[q].pc = "serving" /\ ReuseCheck(q) /\ Answer(q, "rejected")
      /\ UNCHANGED <<storage, page, disturbed, trouble>>
  BY DEF ServerRejects
<1>2. Inv /\ BrowserTypeOK /\ TypeOK
  BY DEF BrowserInv, Inv
<1>3. Inv'
  BY <1>1, <1>2, InvStep DEF Next
<1>4. /\ call' \in [Requests -> CallStates]
      /\ \A r \in Requests \ {q} : call'[r] = call[r]
      /\ call'[q].pc = "answered" /\ call'[q].answer = "rejected"
      /\ call'[q].kind = call[q].kind /\ call'[q].token = call[q].token
      /\ call'[q].at = call[q].at
  BY <1>1, <1>2, AnswerType DEF Answer
<1>5. /\ now' = now /\ req[q].pc = "rejected" /\ req'[q].pc = "idle"
      /\ \A r \in Requests \ {q} : req'[r] = req[r]
  BY <1>1, <1>2 DEF ReuseCheck, TypeOK, Idle
<1>6. BrowserTypeOK'
  BY <1>1, <1>2, <1>3, <1>4 DEF BrowserTypeOK, Inv
<1>7. CallFacts(q)'
  BY <1>1, <1>4, <1>5, CallFactsStay
<1>8. \A t2 \in Tokens :
         /\ token[t2].state # "unused" => token'[t2].state # "unused"
         /\ Rotated(t2)' => Rotated(t2) /\ token'[t2].revokedAt = token[t2].revokedAt
  BY <1>1, <1>2, RevokedRows DEF ReuseCheck, Rotated
<1>9. ~Held(q)' /\ \A t2 \in Tokens : ~Rotating(q, t2)
  BY <1>1, <1>4, <1>5 DEF Held, Answered, Rotating
<1> QED
  BY <1>1, <1>3, <1>4, <1>5, <1>6, <1>7, <1>8, <1>9, ServerKeeps

LEMMA FailsKeep ==
  ASSUME BrowserInv, NEW q \in Requests, ServerFails(q) \/ NetworkFails(q)
  PROVE  BrowserInv'
<1>1. PICK a \in {"failed", "lost"} : Answer(q, a)
  BY DEF ServerFails, NetworkFails
<1>2. /\ Inv /\ BrowserTypeOK /\ TypeOK
      /\ Disturb /\ UNCHANGED <<storage, page, token, deleted, now, opened>>
  BY DEF BrowserInv, Inv, ServerFails, NetworkFails, IssueFails, vars
<1>3. Inv'
  <2>1. [Next]_vars
    BY DEF ServerFails, NetworkFails, Next
  <2> QED
    BY <1>2, <2>1, InvStep
<1>4. /\ call' \in [Requests -> CallStates]
      /\ \A r \in Requests \ {q} : call'[r] = call[r]
      /\ call'[q].pc = "answered" /\ call'[q].answer = a
      /\ call'[q].kind = call[q].kind /\ call'[q].token = call[q].token
      /\ call'[q].at = call[q].at
  BY <1>1, <1>2, AnswerType DEF Answer
<1>5. /\ call[q].pc # "idle" /\ req'[q].pc = "idle"
      /\ \A r \in Requests \ {q} : req'[r] = req[r]
      /\ trouble' \in BOOLEAN /\ (trouble => trouble')
      /\ Answered(q) \/ req[q].pc = "issuing" => trouble'
  <2>1. CASE ServerFails(q) /\ call[q].pc = "serving"
    BY <1>2, <2>1 DEF ServerFails, IssueFails, TypeOK, Idle, Answered, BrowserTypeOK
  <2>2. CASE call[q].pc # "serving"
    <3>1. req[q].pc = "idle" /\ req' = req
      BY <2>2 DEF BrowserInv, CallFacts, ServerFails, NetworkFails, vars
    <3> QED
      BY <1>2, <2>2, <3>1 DEF ServerFails, NetworkFails, Answered, BrowserTypeOK
  <2>3. NetworkFails(q) => call[q].pc # "serving"
    BY DEF NetworkFails
  <2> QED
    BY <2>1, <2>2, <2>3
<1>6. BrowserTypeOK'
  <2>1. disturbed' \in 0..MaxDisturbances
    BY <1>2, DisturbedType
  <2> QED
    BY <1>2, <1>3, <1>4, <1>5, <2>1 DEF BrowserTypeOK, Inv
<1>7. CallFacts(q)'
  BY <1>1, <1>2, <1>4, <1>5, CallFactsStay
<1>8. ~Held(q)' /\ \A t \in Tokens : Rotating(q, t) => trouble'
  BY <1>1, <1>4, <1>5 DEF Held, Answered, Rotating
<1> QED
  BY <1>2, <1>3, <1>4, <1>5, <1>6, <1>7, <1>8, ServerKeeps DEF Rotated

(* Another device or an admin ends the session: no call changes. *)
LEMMA EndedElsewhereKeeps ==
  ASSUME BrowserInv, NEW s \in Sessions, EndedElsewhere(s)
  PROVE  BrowserInv'
<1>1. PICK u \in Users : RevokeSession(u, s)
  BY DEF EndedElsewhere
<1>2. /\ Inv /\ BrowserTypeOK /\ TypeOK
      /\ Disturb /\ UNCHANGED <<req, now, storage, call, page, trouble>>
  BY <1>1 DEF BrowserInv, Inv, EndedElsewhere, RevokeSession
<1>3. Inv'
  BY <1>1, <1>2, InvStep DEF Next
<1>4. BrowserTypeOK'
  <2>1. disturbed' \in 0..MaxDisturbances
    BY <1>2, DisturbedType
  <2> QED
    BY <1>2, <1>3, <2>1 DEF BrowserTypeOK, Inv
<1>5. \A t2 \in Tokens :
         /\ token[t2].state # "unused" => token'[t2].state # "unused"
         /\ Rotated(t2)' => Rotated(t2) /\ token'[t2].revokedAt = token[t2].revokedAt
  BY <1>1, <1>2, RevokedRows DEF RevokeSession
<1>6. CASE Requests = {}
  <2>1. storage.refresh \in Tokens \cup {None}
    BY <1>2 DEF BrowserTypeOK, Storage
  <2>2. Known'
    BY <1>2, <1>5, <1>6, <2>1 DEF BrowserInv, Known
  <2>3. StorageFollows'
    BY <1>2, <1>5, <1>6, <2>1 DEF BrowserInv, StorageFollows, Rotated
  <2> QED
    BY <1>3, <1>4, <1>6, <2>2, <2>3 DEF BrowserInv
<1>7. ASSUME NEW q \in Requests
      PROVE  BrowserInv'
  <2>1. CallFacts(q)'
    BY <1>2 DEF BrowserInv, CallFacts
  <2>2. Held(q)' => Held(q) /\ call'[q].new = call[q].new
    BY <1>2 DEF Held, Answered
  <2>3. \A t \in Tokens : Rotating(q, t) /\ Rotated(t) => Rotating(q, t)'
    <3> SUFFICES ASSUME NEW t \in Tokens, Rotating(q, t), Rotated(t)
                 PROVE  Rotating(q, t)'
      OBVIOUS
    <3>1. token'[t] = token[t]
      BY <1>1 DEF RevokeSession, Revoke, Rotated
    <3> QED
      BY <1>2, <3>1 DEF Rotating, Answered
  <2> QED
    BY <1>2, <1>3, <1>4, <1>5, <2>1, <2>2, <2>3, ServerKeeps
<1> QED
  BY <1>6, <1>7

(* A tick without trouble leaves no call older than Prompt. *)
LEMMA TickKeeps ==
  ASSUME BrowserInv, ClockTicks
  PROVE  BrowserInv'
<1>1. /\ Inv /\ BrowserTypeOK /\ TypeOK /\ now \in Nat /\ now' = now + 1
      /\ UNCHANGED <<deleted, token, req, opened, storage, call, page>>
      /\ trouble' = (trouble \/ \E q \in Requests : Slow(q)) /\ trouble' \in BOOLEAN
  BY DEF BrowserInv, Inv, BrowserTypeOK, TypeOK, Times, ClockTicks, Tick
<1>2. Inv'
  BY <1>1, InvStep DEF ClockTicks, Next
<1>3. BrowserTypeOK'
  <2>1. disturbed' \in 0..MaxDisturbances
    BY <1>1, DisturbedType DEF ClockTicks
  <2> QED
    BY <1>1, <1>2, <2>1 DEF BrowserTypeOK, Inv
<1>4. trouble => trouble'
  BY <1>1
<1>5. \A q \in Requests : CallFacts(q)'
  <2> SUFFICES ASSUME NEW q \in Requests
               PROVE  CallFacts(q)'
    OBVIOUS
  <2>1. CallFacts(q) /\ call[q].at \in Nat
    BY <1>1 DEF BrowserInv, BrowserTypeOK, CallStates, Times
  <2>2. call[q].pc # "idle" /\ ~trouble' => now + 1 <= call[q].at + Prompt
    <3>1. ~trouble' => ~Slow(q)
      BY <1>1
    <3> QED
      BY <1>1, <2>1, <3>1, Numbers DEF Slow
  <2> QED
    BY <1>1, <1>4, <2>1, <2>2 DEF CallFacts
<1>6. Known'
  BY <1>1 DEF BrowserInv, Known
<1>7. \A q \in Requests : HeldFacts(q)'
  BY <1>1 DEF BrowserInv, HeldFacts, Held, Answered, Rotated
<1>8. StorageFollows'
  BY <1>1, <1>4 DEF BrowserInv, StorageFollows, Rotating, Answered, Rotated
<1>9. \A q \in Requests : PresentedSoon(q)'
  BY <1>1, <1>4 DEF BrowserInv, PresentedSoon, Rotated
<1> QED
  BY <1>2, <1>3, <1>5, <1>6, <1>7, <1>8, <1>9 DEF BrowserInv

-----------------------------------------------------------------------------
LEMMA ArrivesKeeps ==
  ASSUME BrowserInv, NEW q \in Requests, Arrives(q)
  PROVE  BrowserInv'
<1>1. call[q].pc = "sent" /\ UNCHANGED <<storage, page, disturbed, trouble>>
  BY DEF Arrives
<1>2. CASE /\ call[q].kind = "refresh" /\ Refresh(q, call[q].token)
           /\ call' = [call EXCEPT ![q].pc = "serving"]
  BY <1>1, <1>2, RefreshArrives
<1>3. CASE /\ call[q].kind = "login" /\ \E u \in Users, s \in Sessions : Login(q, u, s)
           /\ call' = [call EXCEPT ![q].pc = "serving"]
  BY <1>1, <1>3, LoginArrives
<1>4. CASE call[q].kind = "logout" /\ Logout(call[q].token) /\ Answer(q, "ok")
  BY <1>1, <1>4, LogoutArrives
<1> QED
  BY <1>2, <1>3, <1>4 DEF Arrives

LEMMA BrowserStep ==
  ASSUME BrowserInv, [BrowserNext]_bvars
  PROVE  BrowserInv'
<1>1. ASSUME NEW q \in Requests,
             \/ Arrives(q) \/ ServerIssues(q) \/ ServerRejects(q)
             \/ ServerFails(q) \/ NetworkFails(q)
      PROVE  BrowserInv'
  BY <1>1, ArrivesKeeps, IssuesKeep, RejectsKeep, FailsKeep
<1>2. ASSUME NEW p \in Tabs, ClientStep(p)
      PROVE  BrowserInv'
  BY <1>2, RefreshesKeep, PagesKeep, SettlesKeep, UserKeeps DEF ClientStep
<1>3. CASE UNCHANGED bvars
  <2>1. /\ UNCHANGED <<vars, call, trouble>> /\ storage' = storage
        /\ UNCHANGED <<page, disturbed>>
    BY <1>3 DEF bvars, client
  <2>2. BrowserTypeOK'
    BY <2>1 DEF BrowserInv, BrowserTypeOK, TypeOK, vars
  <2> QED
    BY <2>1, <2>2, ClearKeeps
<1> QED
  BY <1>1, <1>2, <1>3, EndedElsewhereKeeps, TickKeeps DEF BrowserNext, ServerStep

(* The inductive invariant of the browser and the server together. *)
THEOREM BrowserInvariance == BrowserSpec => []BrowserInv
<1>1. BrowserInit => BrowserInv
  <2> SUFFICES ASSUME BrowserInit PROVE BrowserInv
    OBVIOUS
  <2>1. Inv
    BY InitInv DEF BrowserInit
  <2>2. BrowserTypeOK
    <3>1. /\ storage = Empty /\ call = [q \in Requests |-> NoCall]
          /\ page = [p \in Tabs |-> NoPage] /\ disturbed = 0 /\ trouble = FALSE
      BY DEF BrowserInit
    <3>2. call \in [Requests -> CallStates] /\ page \in [Tabs -> PageStates]
      BY <3>1, EmptyTypes
    <3>3. disturbed \in 0..MaxDisturbances
      BY <3>1, Numbers
    <3> QED
      BY <2>1, <3>1, <3>2, <3>3, EmptyTypes DEF BrowserTypeOK, Inv
  <2>3. \A q \in Requests : CallFacts(q)
    BY DEF BrowserInit, Init, CallFacts, NoCall, Idle
  <2>4. Known /\ StorageFollows
    BY DEF BrowserInit, Known, StorageFollows, NoCall, Empty
  <2>5. \A q \in Requests : HeldFacts(q) /\ PresentedSoon(q)
    BY DEF BrowserInit, HeldFacts, PresentedSoon, NoCall, Held, Answered
  <2> QED
    BY <2>1, <2>2, <2>3, <2>4, <2>5 DEF BrowserInv
<1> QED
  BY <1>1, BrowserStep, PTL DEF BrowserSpec

(* Browser is composed of the steps of Sessions: what is proved of the rows in *)
(* part 1 holds of them here.                                                  *)
LEMMA SessionsInside == BrowserSpec => Spec
<1>1. BrowserInit => Init
  BY DEF BrowserInit
<1>2. BrowserInv /\ [BrowserNext]_bvars => [Next]_vars
  <2> SUFFICES ASSUME BrowserInv, BrowserNext, ~UNCHANGED vars
               PROVE  Next
    BY DEF bvars
  <2>1. ASSUME NEW q \in Requests, Arrives(q)
        PROVE  Next
    <3>1. call[q].pc = "sent" /\ (call[q].kind # "login" => call[q].token \in Tokens)
      BY <2>1 DEF Arrives, BrowserInv, BrowserTypeOK, CallStates, CallFacts
    <3> QED
      BY <2>1, <3>1 DEF Arrives, Next
  <2>2. ASSUME NEW q \in Requests,
               ServerIssues(q) \/ ServerRejects(q) \/ ServerFails(q) \/ NetworkFails(q)
        PROVE  Next
    BY <2>2 DEF ServerIssues, ServerRejects, ServerFails, NetworkFails, Next
  <2>3. ASSUME NEW s \in Sessions, EndedElsewhere(s)
        PROVE  Next
    BY <2>3 DEF EndedElsewhere, Next
  <2>4. ASSUME NEW p \in Tabs
        PROVE  ~ClientStep(p)
    BY <2>4 DEF ClientStep, SilentRefresh, OtherRequest, OpenPage, PageAnswered,
                PageRefused, PageRefusedAgain, SettleSilent, SettleShared, StartLogin,
                StartLogout, SettleUser
  <2> QED
    BY <2>1, <2>2, <2>3, <2>4 DEF BrowserNext, ServerStep, ClockTicks, Next
<1> QED
  BY <1>1, <1>2, BrowserInvariance, PTL DEF BrowserSpec, Spec

(* A browser whose answers all arrive, and in time, is never taken for a thief *)
(* (REUSE_GRACE_SECONDS in auth/db.rs, refreshAuthToken in api/client.ts).     *)
THEOREM NoFalseAlarm == BrowserSpec => []ReplayMeansTrouble
<1>1. BrowserInv => ReplayMeansTrouble
  <2> SUFFICES ASSUME BrowserInv, ~trouble, NEW q \in Requests,
                      req[q].pc = "rejected", ReusedLongAgo(req[q].token)
               PROVE  FALSE
    BY DEF ReplayMeansTrouble, BrowserInv, BrowserTypeOK
  <2>1. PICK t \in Tokens : t = call[q].token /\ t = req[q].token
    BY DEF BrowserInv, CallFacts, BrowserTypeOK, CallStates
  <2>2. /\ call[q].pc = "serving" /\ call[q].at \in Nat /\ now \in Nat
        /\ token[t].revokedAt \in Nat
    BY DEF BrowserInv, CallFacts, BrowserTypeOK, TypeOK, CallStates, TokenRows, Times
  <2>3. call[q].at <= token[t].revokedAt + Prompt
    BY <2>1, Numbers DEF BrowserInv, PresentedSoon, ReusedLongAgo, Rotated
  <2>4. now <= call[q].at + Prompt
    BY <2>2 DEF BrowserInv, CallFacts
  <2> QED
    BY <2>1, <2>2, <2>3, <2>4, Numbers DEF ReusedLongAgo
<1> QED
  BY <1>1, BrowserInvariance, PTL
-----------------------------------------------------------------------------
(* What holds as long as nothing has gone wrong and the user has only signed   *)
(* in where nobody was signed in: the session hangs on one thread.             *)

(* A call on which the session hangs: its token is consumed or about to be new *)
Carrying(q) == req[q].pc = "issuing" \/ Answered(q)

(* A call whose token is of no use any more *)
Spent(q) ==
  \/ req[q].pc = "rejected"
  \/ call[q].pc = "answered" /\ call[q].answer = "rejected"
  \/ Carrying(q)

CalmCall(q) ==
  /\ call[q].kind # "logout"
  /\ call[q].pc = "idle" \/ q[2] # "user" => call[q].kind = "refresh"
  /\ call[q].pc = "answered" => call[q].answer \in {"ok", "rejected"}
  /\ call[q].pc # "idle" /\ call[q].kind = "refresh" => call[q].token \in Tokens
  /\ Answered(q) => call[q].new \in Tokens /\ call[q].at + AccessTtl <= call[q].access
  /\ Carrying(q) /\ call[q].kind = "refresh" =>
       storage = Empty \/ storage.refresh = call[q].token
  /\ Spent(q) => \A t \in Tokens : call[q].token = t => ~Usable(t)

OneCarrier == \A q, r \in Requests : Carrying(q) /\ Carrying(r) => q = r

(* Who signs in does it in a browser that is signed out and waits for nothing. *)
LoginAlone(q) ==
  call[q].kind = "login" =>
    /\ storage = Empty
    /\ \A r \in Requests \ {q} : call[r].pc = "idle"

(* Whatever is usable is stored or on its way. *)
NothingLost ==
  \A t \in Tokens : Usable(t) =>
    storage.refresh = t \/ \E q \in Requests : Held(q) /\ call[q].new = t

(* A refresh finds another token stored only if that one is fresh. *)
OvertakenByFresh(q) ==
  call[q].pc # "idle" /\ storage.refresh \notin {None, call[q].token} =>
    call[q].at + AccessTtl <= storage.access + Prompt

(* A retry carries an access token that lives. *)
RetryIsHarmless(p) == page[p].pc = "resent" => now < page[p].access

Calm ==
  /\ deleted = {} /\ ~trouble
  /\ storage = Empty \/ storage.refresh # None
  /\ \A q \in Requests : CalmCall(q) /\ LoginAlone(q) /\ OvertakenByFresh(q)
  /\ OneCarrier
  /\ NothingLost
  /\ \A p \in Tabs : RetryIsHarmless(p)

CalmInv == disturbed = 0 => Calm

(* A call that runs without trouble is at most Prompt old. *)
LEMMA CalmTimes ==
  ASSUME BrowserInv, Calm, NEW q \in Requests
  PROVE  /\ now \in Nat /\ call[q].at \in Nat /\ call[q].access \in Nat
         /\ storage.access \in Nat
         /\ call[q].pc # "idle" => now <= call[q].at + Prompt
         /\ call[q].at <= now
         /\ Carrying(q) => call[q].pc \in {"serving", "answered"}
         /\ Spent(q) => call[q].pc # "idle"
<1>1. call[q] \in CallStates /\ storage \in Storage /\ now \in Times
  BY DEF BrowserInv, BrowserTypeOK, TypeOK
<1>2. now \in Nat /\ call[q].at \in Nat /\ call[q].access \in Nat /\ storage.access \in Nat
  BY <1>1, Numbers DEF CallStates, Storage, Times, Instants
<1>3. CallFacts(q) /\ ~trouble
  BY DEF BrowserInv, Calm
<1> QED
  BY <1>2, <1>3 DEF CallFacts, Carrying, Spent, Answered

(* Nothing but the pages changes, and no new retry is sent. *)
LEMMA CalmStays ==
  ASSUME Calm, UNCHANGED <<vars, storage, call, trouble>>,
         \A p \in Tabs : page'[p].pc = "resent" => page'[p] = page[p]
  PROVE  Calm'
<1> USE DEF vars
<1>1. \A q \in Requests : CalmCall(q)' /\ LoginAlone(q)' /\ OvertakenByFresh(q)'
  BY DEF Calm, CalmCall, LoginAlone, OvertakenByFresh, Carrying, Spent, Answered, Usable
<1>2. OneCarrier' /\ NothingLost'
  BY DEF Calm, OneCarrier, NothingLost, Carrying, Answered, Held, Usable
<1>3. \A p \in Tabs : RetryIsHarmless(p)'
  BY DEF Calm, RetryIsHarmless
<1> QED
  BY <1>1, <1>2, <1>3 DEF Calm

(* A call is sent: a refresh with the stored token, or a login, alone. *)
LEMMA CalmSends ==
  ASSUME BrowserInv, Calm, UNCHANGED <<vars, storage, trouble>>,
         \A p \in Tabs : page'[p].pc = "resent" => page'[p] = page[p],
         NEW q \in Requests, call[q].pc = "idle",
         NEW kind \in {"refresh", "login"}, NEW t \in Tokens \cup {None},
         call' = [call EXCEPT ![q] = Sent(kind, t)],
         \/ kind = "refresh" /\ q[2] # "user" /\ t = storage.refresh /\ t # None
         \/ kind = "login" /\ q[2] = "user" /\ storage = Empty /\ Quiet
  PROVE  Calm'
<1> USE DEF vars
<1> DEFINE c == Sent(kind, t)
<1>1. c.pc = "sent" /\ c.kind = kind /\ c.token = t
  BY SentTypes DEF BrowserInv, BrowserTypeOK, TypeOK
<1> HIDE DEF c
<1>2. call'[q] = c /\ \A r \in Requests \ {q} : call'[r] = call[r]
  BY DEF c, BrowserInv, BrowserTypeOK
<1>3. \A r \in Requests : /\ Carrying(r)' <=> Carrying(r) /\ r # q
                          /\ Spent(r)' <=> Spent(r) /\ r # q
                          /\ Held(r)' <=> Held(r) /\ r # q
                          /\ Answered(r)' <=> Answered(r) /\ r # q
  BY <1>1, <1>2 DEF Carrying, Spent, Answered, Held, BrowserInv, CallFacts
<1>4. ~Carrying(q) /\ ~Held(q)
  BY CalmTimes DEF Held, Answered
<1>5. \A r \in Requests : CalmCall(r)'
  BY <1>1, <1>2, <1>3 DEF Calm, CalmCall, Usable
<1>6. \A r \in Requests : LoginAlone(r)'
  <2>1. CASE kind = "refresh"
    <3>1. storage.refresh # None /\ storage # Empty
      BY <2>1, EmptyTypes
    <3> QED
      BY <1>1, <1>2, <2>1, <3>1 DEF Calm, LoginAlone
  <2>2. CASE kind = "login"
    <3>1. \A r \in Requests \ {q} : call[r].pc = "idle" /\ call'[r] = call[r]
      BY <1>2, <2>2 DEF Quiet
    <3>2. \A r \in Requests \ {q} : call[r].kind # "login"
      BY <3>1 DEF Calm, CalmCall
    <3> QED
      BY <1>1, <1>2, <2>2, <3>1, <3>2 DEF LoginAlone
  <2> QED
    BY <2>1, <2>2
<1>7. \A r \in Requests : OvertakenByFresh(r)'
  BY <1>1, <1>2, EmptyTypes DEF Calm, OvertakenByFresh
<1>8. OneCarrier'
  BY <1>3 DEF Calm, OneCarrier
<1>9. NothingLost'
  BY <1>2, <1>3, <1>4 DEF Calm, NothingLost, Usable
<1>10. \A p \in Tabs : RetryIsHarmless(p)'
  BY DEF Calm, RetryIsHarmless
<1> QED
  BY <1>5, <1>6, <1>7, <1>8, <1>9, <1>10 DEF Calm

(* A call is over: its new token is stored, or the storage is left as it is, or *)
(* the token that was refused is cleared.                                       *)
LEMMA CalmSettles ==
  ASSUME BrowserInv, Calm, UNCHANGED <<vars, trouble>>,
         NEW q \in Requests, call[q].pc = "answered", call' = [call EXCEPT ![q] = NoCall],
         \/ call[q].answer = "ok" /\ storage' = Received(q)
         \/ /\ call[q].answer # "ok"
            /\ \/ storage' = storage
               \/ storage' = Empty /\ storage.refresh = call[q].token,
         \A p \in Tabs : page'[p].pc = "resent" =>
           \/ page'[p] = page[p]
           \/ page'[p].access = storage'.access /\ call[q].answer = "ok"
           \/ /\ page'[p].access = storage'.access /\ storage' = storage
              /\ storage.refresh # call[q].token /\ storage.access # 0
  PROVE  Calm'
<1> USE DEF vars
<1>1. /\ call'[q] = NoCall /\ \A r \in Requests \ {q} : call'[r] = call[r]
      /\ NoCall.pc = "idle" /\ NoCall.token = None /\ NoCall.kind = "refresh"
      /\ NoCall.answer = "none"
  BY DEF BrowserInv, BrowserTypeOK, NoCall
<1>2. /\ CalmCall(q) /\ LoginAlone(q) /\ OvertakenByFresh(q)
      /\ call[q].answer \in {"ok", "rejected"} /\ req[q].pc = "idle"
  BY DEF Calm, CalmCall, BrowserInv, CallFacts
<1>3. \A r \in Requests : /\ Carrying(r)' <=> Carrying(r) /\ r # q
                          /\ Spent(r)' <=> Spent(r) /\ r # q
                          /\ Held(r)' <=> Held(r) /\ r # q
                          /\ Answered(r)' <=> Answered(r) /\ r # q
  BY <1>1, <1>2 DEF Carrying, Spent, Answered, Held
<1>4. CASE call[q].answer = "ok"
  <2>1. /\ Carrying(q) /\ Held(q) /\ storage'.refresh = call[q].new
        /\ storage'.access = call[q].access /\ call[q].new \in Tokens
        /\ call[q].at + AccessTtl <= call[q].access
    BY <1>2, <1>4, Numbers DEF Received, Carrying, Answered, Held, CalmCall
  <2>10. call[q].kind \in {"refresh", "login"}
    BY <1>2 DEF CalmCall, BrowserInv, BrowserTypeOK, CallStates
  <2>2. \A r \in Requests \ {q} : ~Carrying(r) /\ ~Held(r)
    BY <2>1 DEF Calm, OneCarrier, Carrying, Held
  <2>3. \A r \in Requests : CalmCall(r)'
    BY <1>1, <1>3, <2>2 DEF Calm, CalmCall, Usable
  <2>4. \A r \in Requests \ {q} : call[r].kind # "login"
    BY DEF Calm, LoginAlone
  <2>5. \A r \in Requests : LoginAlone(r)'
    BY <1>1, <2>4 DEF LoginAlone
  <2>6. \A r \in Requests : OvertakenByFresh(r)'
    <3> SUFFICES ASSUME NEW r \in Requests, call'[r].pc # "idle"
                 PROVE  call'[r].at + AccessTtl <= storage'.access + Prompt
      BY DEF OvertakenByFresh
    <3>1. r # q /\ call'[r] = call[r]
      BY <1>1
    <3>2. call[r].at <= call[q].at + Prompt
      BY CalmTimes, Numbers
    <3> QED
      BY <1>4, <2>1, <3>1, <3>2, CalmTimes, Numbers
  <2>7. OneCarrier'
    BY <1>3, <2>2 DEF OneCarrier
  <2>8. NothingLost'
    <3> SUFFICES ASSUME NEW t \in Tokens, Usable(t)
                 PROVE  storage'.refresh = t
      BY DEF NothingLost, Usable
    <3>1. storage.refresh # t
      BY <1>2, <2>1, <2>10, Numbers, EmptyTypes DEF CalmCall, LoginAlone, Spent
    <3> QED
      BY <2>1, <2>2, <3>1 DEF Calm, NothingLost
  <2>9. \A p \in Tabs : RetryIsHarmless(p)'
    <3> SUFFICES ASSUME NEW p \in Tabs, page'[p].pc = "resent"
                 PROVE  now < page'[p].access
      BY DEF RetryIsHarmless
    <3>1. now < call[q].access
      BY <2>1, CalmTimes, Numbers, BrowserAssumption
    <3> QED
      BY <1>4, <2>1, <3>1 DEF Calm, RetryIsHarmless
  <2> QED
    BY <2>1, <2>3, <2>5, <2>6, <2>7, <2>8, <2>9, Numbers DEF Calm
<1>5. CASE call[q].answer = "rejected" /\ storage' = storage
  <2>1. ~Held(q) /\ ~Carrying(q) /\ Spent(q)
    BY <1>2, <1>5 DEF Held, Answered, Carrying, Spent
  <2>2. \A r \in Requests : CalmCall(r)'
    BY <1>1, <1>3, <1>5 DEF Calm, CalmCall, Usable
  <2>3. \A r \in Requests : LoginAlone(r)'
    <3> SUFFICES ASSUME NEW r \in Requests, call'[r].kind = "login"
                 PROVE  LoginAlone(r)'
      BY DEF LoginAlone
    <3>1. r # q /\ call[r].kind = "login" /\ call[q].pc = "idle"
      BY <1>1 DEF Calm, LoginAlone
    <3> QED
      BY <3>1
  <2>4. \A r \in Requests : OvertakenByFresh(r)'
    BY <1>1, <1>5 DEF Calm, OvertakenByFresh
  <2>5. OneCarrier'
    BY <1>3 DEF Calm, OneCarrier
  <2>6. NothingLost'
    BY <1>1, <1>3, <1>5, <2>1 DEF Calm, NothingLost, Usable
  <2>7. \A p \in Tabs : RetryIsHarmless(p)'
    <3> SUFFICES ASSUME NEW p \in Tabs, page'[p].pc = "resent"
                 PROVE  now < page'[p].access
      BY DEF RetryIsHarmless
    <3>1. CASE page'[p] = page[p]
      BY <3>1 DEF Calm, RetryIsHarmless
    <3>2. CASE /\ page'[p].access = storage.access /\ storage.refresh # call[q].token
               /\ storage.access # 0
      <4>1. storage.refresh \notin {None, call[q].token}
        BY <3>2 DEF Calm, Empty
      <4>2. call[q].at + AccessTtl <= storage.access + Prompt
        BY <1>2, <4>1 DEF OvertakenByFresh
      <4> QED
        BY <3>2, <4>2, CalmTimes, Numbers, BrowserAssumption
    <3> QED
      BY <1>5, <3>1, <3>2
  <2> QED
    BY <1>5, <2>2, <2>3, <2>4, <2>5, <2>6, <2>7 DEF Calm
<1>6. CASE /\ call[q].answer = "rejected" /\ storage' = Empty
           /\ storage.refresh = call[q].token
  <2>1. ~Held(q) /\ ~Carrying(q) /\ Spent(q)
    BY <1>2, <1>6 DEF Held, Answered, Carrying, Spent
  <2>2. \A r \in Requests \ {q} : call[r].kind = "refresh"
    BY DEF Calm, CalmCall, LoginAlone, BrowserInv, BrowserTypeOK, CallStates
  <2>3. \A r \in Requests : CalmCall(r)'
    BY <1>1, <1>3, <1>6 DEF Calm, CalmCall, Usable
  <2>4. \A r \in Requests : LoginAlone(r)'
    BY <1>1, <2>2 DEF LoginAlone
  <2>5. \A r \in Requests : OvertakenByFresh(r)'
    BY <1>6, EmptyTypes DEF OvertakenByFresh
  <2>6. OneCarrier'
    BY <1>3 DEF Calm, OneCarrier
  <2>7. NothingLost'
    <3> SUFFICES ASSUME NEW t \in Tokens, Usable(t)
                 PROVE  \E r \in Requests : Held(r)' /\ call'[r].new = t
      BY DEF NothingLost, Usable
    <3>1. storage.refresh # t
      BY <1>2, <1>6, <2>1 DEF CalmCall
    <3> QED
      BY <1>1, <1>3, <2>1, <3>1 DEF Calm, NothingLost
  <2>8. \A p \in Tabs : RetryIsHarmless(p)'
    <3> SUFFICES ASSUME NEW p \in Tabs, page'[p].pc = "resent"
                 PROVE  page'[p] = page[p]
      BY DEF Calm, RetryIsHarmless
    <3> QED
      BY <1>6
  <2> QED
    BY <1>6, <2>3, <2>4, <2>5, <2>6, <2>7, <2>8 DEF Calm
<1> QED
  BY <1>2, <1>4, <1>5, <1>6

(* The server takes a call, or answers it. *)
LEMMA CalmServes ==
  ASSUME BrowserInv, BrowserInv', Calm,
         UNCHANGED <<deleted, now, storage, page, trouble>>,
         NEW q \in Requests, call[q].pc # "idle", call'[q].pc \in {"serving", "answered"},
         \A r \in Requests \ {q} : call'[r] = call[r] /\ req'[r] = req[r],
         call'[q].kind = call[q].kind, call'[q].token = call[q].token,
         call'[q].at = call[q].at, CalmCall(q)',
         Carrying(q)' => \A r \in Requests \ {q} : ~Carrying(r),
         Held(q) => Held(q)' /\ call'[q].new = call[q].new,
         \A t \in Tokens : Usable(t)' => Usable(t) \/ (Held(q)' /\ call'[q].new = t)
  PROVE  Calm'
<1>1. \A r \in Requests \ {q} : /\ Carrying(r)' <=> Carrying(r)
                                /\ Spent(r)' <=> Spent(r)
                                /\ Held(r)' <=> Held(r)
                                /\ Answered(r)' <=> Answered(r)
  BY DEF Carrying, Spent, Answered, Held
<1>2. \A r \in Requests : CalmCall(r)'
  <2> SUFFICES ASSUME NEW r \in Requests \ {q}, Spent(r),
                      NEW t \in Tokens, call[r].token = t, Usable(t)'
               PROVE  FALSE
    BY <1>1 DEF Calm, CalmCall
  <2>1. ~Usable(t)
    BY DEF Calm, CalmCall
  <2>2. Held(q)' /\ call'[q].new = t
    BY <2>1
  <2> QED
    BY <2>2 DEF BrowserInv, HeldFacts
<1>3. \A r \in Requests : LoginAlone(r)'
  BY DEF Calm, LoginAlone
<1>4. \A r \in Requests : OvertakenByFresh(r)'
  BY DEF Calm, OvertakenByFresh
<1>5. OneCarrier'
  BY <1>1 DEF Calm, OneCarrier
<1>6. NothingLost'
  BY <1>1 DEF Calm, NothingLost
<1>7. \A p \in Tabs : RetryIsHarmless(p)'
  BY DEF Calm, RetryIsHarmless
<1> QED
  BY <1>2, <1>3, <1>4, <1>5, <1>6, <1>7 DEF Calm

LEMMA CalmArrives ==
  ASSUME BrowserInv, BrowserInv', Calm, NEW q \in Requests, Arrives(q)
  PROVE  Calm'
<1>1. call[q].pc = "sent" /\ UNCHANGED <<storage, page, trouble>>
  BY DEF Arrives
<1>2. CalmCall(q) /\ BrowserTypeOK /\ TypeOK /\ req[q].pc = "idle" /\ LoginAlone(q)
  BY <1>1 DEF Calm, BrowserInv, CallFacts, BrowserTypeOK
<1>3. CASE /\ call[q].kind = "refresh" /\ Refresh(q, call[q].token)
           /\ call' = [call EXCEPT ![q].pc = "serving"]
  <2>1. PICK t \in Tokens : t = call[q].token
    BY <1>1, <1>2, <1>3 DEF CalmCall
  <2>2. Refresh(q, t) /\ UNCHANGED <<deleted, now>>
    BY <1>3, <2>1 DEF Refresh
  <2>3. /\ \A r \in Requests \ {q} : call'[r] = call[r] /\ req'[r] = req[r]
        /\ call'[q].pc = "serving" /\ call'[q].kind = call[q].kind
        /\ call'[q].token = t /\ call'[q].at = call[q].at
    BY <1>2, <1>3, <2>1, <2>2, ServingType DEF Refresh, TypeOK
  <2>4. ~Held(q) /\ ~Held(q)' /\ ~Answered(q)'
    BY <1>1, <2>3 DEF Held, Answered
  <2>5. CASE Consumable(t)
    <3>0. /\ token' = [token EXCEPT ![t].state = "revoked", ![t].revokedAt = now,
                                    ![t].reason = "rotated"]
          /\ req' = [req EXCEPT ![q] = CarriedOn(t)] /\ CarriedOn(t).pc = "issuing"
      BY <2>2, <2>5 DEF Refresh, CarriedOn, Idle
    <3>1. /\ req'[q].pc = "issuing" /\ token'[t].state = "revoked"
          /\ \A t2 \in Tokens \ {t} : token'[t2] = token[t2]
      BY <1>2, <3>0 DEF TypeOK, TokenRows
    <3>2. Usable(t)
      BY <2>5 DEF Consumable
    <3>3. storage.refresh = t
      BY <2>1, <3>2 DEF Calm, NothingLost, BrowserInv, HeldFacts
    <3>4. ASSUME NEW r \in Requests \ {q}, Carrying(r)
          PROVE  FALSE
      <4>1. call[r].kind = "refresh"
        BY <1>1 DEF Calm, CalmCall, LoginAlone, BrowserInv, BrowserTypeOK, CallStates
      <4>2. call[r].token = t
        BY <3>3, <3>4, <4>1, EmptyTypes, Numbers DEF Calm, CalmCall
      <4> QED
        BY <3>2, <3>4, <4>2 DEF Calm, CalmCall, Spent
    <3>5. \A t2 \in Tokens : Usable(t2)' => Usable(t2) /\ t2 # t
      BY <2>2, <3>1 DEF Usable
    <3>6. CalmCall(q)'
      BY <1>1, <1>2, <1>3, <2>1, <2>3, <2>4, <3>3, <3>5 DEF CalmCall
    <3> QED
      BY <1>1, <2>1, <2>2, <2>3, <2>4, <3>4, <3>5, <3>6, CalmServes
  <2>6. CASE ~Consumable(t)
    <3>1. req'[q].pc = "rejected" /\ token' = token
      BY <1>2, <2>2, <2>6 DEF Refresh, Idle, TypeOK
    <3>2. ~Usable(t) /\ ~Carrying(q)'
      BY <1>2, <2>4, <2>6, <3>1 DEF Consumable, Calm, Carrying
    <3>3. \A t2 \in Tokens : Usable(t2)' => Usable(t2)
      BY <2>2, <3>1 DEF Usable
    <3>4. CalmCall(q)'
      BY <1>1, <1>2, <1>3, <2>1, <2>3, <2>4, <3>2, <3>3 DEF CalmCall
    <3> QED
      BY <1>1, <2>1, <2>2, <2>3, <2>4, <3>2, <3>3, <3>4, CalmServes
  <2> QED
    BY <2>5, <2>6
<1>4. ASSUME call[q].kind = "login", NEW u \in Users, NEW s \in Sessions, Login(q, u, s),
             call' = [call EXCEPT ![q].pc = "serving"]
      PROVE  Calm'
  <2>1. UNCHANGED <<deleted, now, token>> /\ req'[q].pc = "issuing"
    BY <1>2, <1>4 DEF Login, Idle, TypeOK
  <2>2. /\ \A r \in Requests \ {q} : call'[r] = call[r] /\ req'[r] = req[r]
        /\ call'[q].pc = "serving" /\ call'[q].kind = call[q].kind
        /\ call'[q].token = call[q].token /\ call'[q].at = call[q].at
    BY <1>2, <1>4, ServingType DEF Login, TypeOK
  <2>3. ~Held(q) /\ ~Held(q)' /\ ~Answered(q)'
    BY <1>1, <2>2 DEF Held, Answered
  <2>4. \A r \in Requests \ {q} : ~Carrying(r)
    BY <1>2, <1>4, CalmTimes DEF LoginAlone
  <2>5. \A t \in Tokens : Usable(t)' <=> Usable(t)
    BY <2>1 DEF Usable
  <2>6. \A t \in Tokens : ~Usable(t)
    <3>1. storage.refresh = None /\ \A r \in Requests : ~Held(r)
      BY <1>2, <1>4, <2>3, <2>4, EmptyTypes DEF LoginAlone, Held, Carrying
    <3> QED
      BY <3>1, Numbers DEF Calm, NothingLost
  <2>7. CalmCall(q)'
    BY <1>1, <1>2, <1>4, <2>2, <2>3, <2>5, <2>6 DEF CalmCall
  <2> QED
    BY <1>1, <2>1, <2>2, <2>3, <2>4, <2>5, <2>7, CalmServes
<1> QED
  BY <1>2, <1>3, <1>4 DEF Arrives, CalmCall

LEMMA CalmAnswers ==
  ASSUME BrowserInv, BrowserInv', Calm, NEW q \in Requests,
         ServerIssues(q) \/ ServerRejects(q)
  PROVE  Calm'
<1>1. /\ CalmCall(q) /\ BrowserTypeOK /\ TypeOK /\ CallFacts(q)
      /\ call[q].pc = "serving" /\ call[q] \in CallStates
      /\ UNCHANGED <<storage, page, trouble>>
  BY DEF Calm, BrowserInv, BrowserTypeOK, ServerIssues, ServerRejects
<1>2. ~Held(q) /\ ~Answered(q)
  BY <1>1 DEF Held, Answered
<1>3. CASE ServerIssues(q)
  <2>1. PICK t \in Tokens :
          /\ Issue(q, t)
          /\ call' = [call EXCEPT ![q].pc = "answered", ![q].answer = "ok", ![q].new = t,
                                  ![q].access = now + AccessTtl]
    BY <1>3 DEF ServerIssues
  <2>2. /\ UNCHANGED <<deleted, now>> /\ req[q].pc = "issuing" /\ Carrying(q)
        /\ token[t].state = "unused"
        /\ \A t2 \in Tokens \ {t} : token'[t2] = token[t2]
    BY <1>1, <2>1 DEF Issue, TypeOK, Carrying
  <2>3. /\ \A r \in Requests \ {q} : call'[r] = call[r] /\ req'[r] = req[r]
        /\ call'[q].pc = "answered" /\ call'[q].answer = "ok" /\ call'[q].new = t
        /\ call'[q].access = now + AccessTtl /\ call'[q].kind = call[q].kind
        /\ call'[q].token = call[q].token /\ call'[q].at = call[q].at
    <3>1. \A r \in Requests \ {q} : req'[r] = req[r]
      BY <1>1, <2>1 DEF Issue, TypeOK
    <3> QED
      BY <1>1, <2>1, <3>1 DEF BrowserTypeOK, CallStates
  <2>4. Held(q)' /\ Carrying(q)'
    BY <2>3, Numbers DEF Held, Carrying, Answered
  <2>5. \A t2 \in Tokens : Usable(t2)' => Usable(t2) \/ t2 = t
    BY <2>2 DEF Usable
  <2>6. call[q].token # t
    BY <2>2, Numbers DEF BrowserInv, Known
  <2>7. CalmCall(q)'
    <3>1. call[q].at + AccessTtl <= now + AccessTtl
      BY <1>1, CalmTimes, Numbers
    <3>2. \A t2 \in Tokens : call[q].token = t2 => ~Usable(t2)'
      BY <1>1, <2>2, <2>5, <2>6 DEF CalmCall, Spent
    <3> QED
      BY <1>1, <2>2, <2>3, <3>1, <3>2 DEF CalmCall
  <2>8. \A r \in Requests \ {q} : ~Carrying(r)
    BY <2>2 DEF Calm, OneCarrier
  <2> QED
    BY <1>1, <1>2, <2>2, <2>3, <2>4, <2>5, <2>7, <2>8, CalmServes
<1>4. CASE ServerRejects(q)
  <2>1. ReuseCheck(q) /\ Answer(q, "rejected")
    BY <1>4 DEF ServerRejects
  <2>2. /\ UNCHANGED <<deleted, now>> /\ req[q].pc = "rejected" /\ req'[q].pc = "idle"
        /\ \A r \in Requests \ {q} : req'[r] = req[r]
    BY <1>1, <2>1 DEF ReuseCheck, TypeOK, Idle
  <2>3. /\ \A r \in Requests \ {q} : call'[r] = call[r]
        /\ call'[q].pc = "answered" /\ call'[q].answer = "rejected"
        /\ call'[q].kind = call[q].kind /\ call'[q].token = call[q].token
        /\ call'[q].at = call[q].at
    BY <1>1, <2>1, AnswerType DEF Answer
  <2>4. \A t \in Tokens : Usable(t)' => Usable(t)
    <3> SUFFICES ASSUME NEW t \in Tokens, Usable(t)' PROVE Usable(t)
      OBVIOUS
    <3>1. token[t] \in TokenRows
      BY <1>1 DEF TypeOK
    <3>2. \/ token'[t] = token[t]
          \/ token'[t] = [token[t] EXCEPT !.state = "revoked", !.revokedAt = now,
                                          !.reason = "revoked"]
      BY <2>1 DEF ReuseCheck, Revoke
    <3>3. token'[t] = token[t]
      BY <3>1, <3>2 DEF Usable, TokenRows
    <3> QED
      BY <2>2, <3>3 DEF Usable
  <2>5. ~Held(q)' /\ ~Carrying(q)' /\ ~Answered(q)'
    BY <2>2, <2>3 DEF Held, Carrying, Answered
  <2>6. CalmCall(q)'
    BY <1>1, <2>2, <2>3, <2>4, <2>5 DEF CalmCall, Spent
  <2> QED
    BY <1>1, <1>2, <2>2, <2>3, <2>4, <2>5, <2>6, CalmServes
<1> QED
  BY <1>3, <1>4

(* Time passes, no call being slow and no retry under way. *)
LEMMA CalmTicks ==
  ASSUME BrowserInv, Calm, ClockTicks, disturbed' = disturbed
  PROVE  Calm'
<1>1. /\ now \in Nat /\ now' = now + 1 /\ disturbed \in Nat
      /\ UNCHANGED <<deleted, token, req, storage, call, page>>
  BY Numbers DEF BrowserInv, BrowserTypeOK, TypeOK, Times, ClockTicks, Tick
<1>2. (\A q \in Requests : ~Slow(q)) /\ (\A p \in Tabs : page[p].pc # "resent")
  BY <1>1 DEF ClockTicks, Disturb
<1>3. ~trouble'
  BY <1>2 DEF ClockTicks, Calm, BrowserInv, BrowserTypeOK
<1>4. \A t \in Tokens : Usable(t)' => Usable(t)
  <2> SUFFICES ASSUME NEW t \in Tokens, Usable(t)' PROVE Usable(t)
    OBVIOUS
  <2>1. token[t].expires \in Nat
    BY DEF BrowserInv, BrowserTypeOK, TypeOK, TokenRows
  <2> QED
    BY <1>1, <2>1 DEF Usable
<1>5. \A q \in Requests : CalmCall(q)' /\ LoginAlone(q)' /\ OvertakenByFresh(q)'
  BY <1>1, <1>4
     DEF Calm, CalmCall, LoginAlone, OvertakenByFresh, Carrying, Spent, Answered
<1>6. OneCarrier' /\ NothingLost'
  BY <1>1, <1>4 DEF Calm, OneCarrier, NothingLost, Carrying, Answered, Held
<1>7. \A p \in Tabs : RetryIsHarmless(p)'
  BY <1>1, <1>2 DEF RetryIsHarmless
<1> QED
  BY <1>1, <1>3, <1>5, <1>6, <1>7 DEF Calm

LEMMA CalmStarts ==
  ASSUME BrowserInv, Calm, UNCHANGED <<vars, storage, trouble>>, NEW p \in Tabs,
         \A p2 \in Tabs : page'[p2].pc = "resent" => page'[p2] = page[p2],
         JoinShared(p) \/ (<<p, "silent">> \in Requests /\ StartRefresh(<<p, "silent">>))
  PROVE  Calm'
<1>1. ASSUME NEW role \in {"shared", "silent"}, <<p, role>> \in Requests,
             StartRefresh(<<p, role>>)
      PROVE  Calm'
  <2> DEFINE q == <<p, role>>
  <2>1. /\ q \in Requests /\ q[2] # "user" /\ call[q].pc = "idle" /\ storage.refresh # None
        /\ call' = [call EXCEPT ![q] = Sent("refresh", storage.refresh)]
    BY <1>1 DEF StartRefresh
  <2>2. storage.refresh \in Tokens \cup {None}
    BY DEF BrowserInv, BrowserTypeOK, Storage
  <2> HIDE DEF q
  <2> QED
    BY <2>1, <2>2, CalmSends
<1>2. CASE UNCHANGED call
  BY <1>2, CalmStays
<1> QED
  BY <1>1, <1>2, SharedIsRequest DEF JoinShared

(* Without a disturbance, fetchMe clears nothing. *)
LEMMA CalmPages ==
  ASSUME BrowserInv, Calm, NEW p \in Tabs,
         \/ SilentRefresh(p) \/ OtherRequest(p) \/ OpenPage(p)
         \/ PageAnswered(p) \/ PageRefused(p) \/ PageRefusedAgain(p)
  PROVE  Calm'
<1>1. \A p2 \in Tabs : page'[p2].pc = "resent" => page'[p2] = page[p2]
  <2>1. page \in [Tabs -> PageStates] /\ page[p] \in PageStates /\ NoPage.pc = "idle"
    BY DEF BrowserInv, BrowserTypeOK, NoPage
  <2>2. \A pc \in {"refreshing", "retrying"} : [page[p] EXCEPT !.pc = pc].pc = pc
    BY <2>1 DEF PageStates
  <2>3. \/ page' = page \/ page' = [page EXCEPT ![p] = NoPage]
        \/ page' = [page EXCEPT ![p] = [pc |-> "sent", access |-> storage.access]]
        \/ \E pc \in {"refreshing", "retrying"} :
             page' = [page EXCEPT ![p] = [page[p] EXCEPT !.pc = pc]]
    BY <2>1 DEF SilentRefresh, OtherRequest, OpenPage, PageAnswered, PageRefused,
                PageRefusedAgain
  <2>4. page' = page \/ \E y : page' = [page EXCEPT ![p] = y] /\ y.pc # "resent"
    BY <2>1, <2>2, <2>3
  <2> QED
    BY <2>1, <2>4
<1>2. UNCHANGED <<vars, storage, trouble>>
  <2>1. CASE PageRefused(p)
    BY <2>1, EmptyTypes DEF PageRefused, Calm
  <2>2. CASE PageRefusedAgain(p)
    <3>1. now \in Nat /\ page[p].access \in Nat
      BY Numbers DEF BrowserInv, BrowserTypeOK, TypeOK, PageStates, Times, Instants
    <3> QED
      BY <2>2, <3>1 DEF PageRefusedAgain, Calm, RetryIsHarmless
  <2> QED
    BY <2>1, <2>2 DEF SilentRefresh, OtherRequest, OpenPage, PageAnswered
<1>3. CASE call' = call
  BY <1>1, <1>2, <1>3, CalmStays
<1>4. CASE JoinShared(p) \/ (<<p, "silent">> \in Requests /\ StartRefresh(<<p, "silent">>))
  BY <1>1, <1>2, <1>4, CalmStarts
<1>5. OtherRequest(p) => JoinShared(p)
  BY DEF OtherRequest, JoinShared
<1> QED
  BY <1>3, <1>4, <1>5 DEF SilentRefresh, OpenPage, PageAnswered, PageRefused, PageRefusedAgain

LEMMA CalmSettlesAll ==
  ASSUME BrowserInv, Calm, disturbed' = 0, NEW p \in Tabs,
         SettleSilent(p) \/ SettleShared(p) \/ SettleUser(p)
  PROVE  Calm'
<1>2. CASE SettleSilent(p)
  <2> DEFINE q == <<p, "silent">>
  <2>1. /\ q \in Requests /\ call[q].pc = "answered" /\ storage' = StoredAfter(q)
        /\ call' = [call EXCEPT ![q] = NoCall]
        /\ UNCHANGED <<vars, page, trouble>>
    BY <1>2 DEF SettleSilent
  <2> HIDE DEF q
  <2>2. call[q].answer \in {"ok", "rejected"}
    BY <2>1 DEF Calm, CalmCall
  <2>3. \/ call[q].answer = "ok" /\ storage' = Received(q)
        \/ call[q].answer # "ok" /\ storage' = StoredIfRejected(q)
    BY <2>1, <2>2 DEF StoredAfter
  <2> QED
    BY <2>1, <2>3, CalmSettles DEF StoredIfRejected
<1>3. CASE SettleShared(p)
  <2> DEFINE q == <<p, "shared">>
             givesUp == page[p].pc = "retrying" /\ ~Refreshed(q)
             goesOn == \/ page[p].pc = "refreshing"
                       \/ page[p].pc = "retrying" /\ Refreshed(q)
             bare == page[p].pc = "retrying" /\ Refreshed(q) /\ storage'.access = 0
             on == [pc |-> IF page[p].pc = "refreshing" THEN "sent" ELSE "resent",
                    access |-> IF bare THEN page[p].access ELSE storage'.access]
  <2>1. /\ q \in Requests /\ call[q].pc = "answered" /\ q[2] # "user"
        /\ storage' = IF givesUp THEN Empty ELSE StoredAfter(q)
        /\ call' = [call EXCEPT ![q] = NoCall]
        /\ UNCHANGED <<vars, trouble>>
        /\ page' = [page EXCEPT ![p] =
             CASE givesUp -> NoPage [] goesOn -> on [] OTHER -> page[p]]
        /\ ~bare
    BY <1>3, Numbers DEF SettleShared, BrowserInv, BrowserTypeOK
  <2>2. givesUp => ~Refreshed(q)
    OBVIOUS
  <2>3. \A p2 \in Tabs : page'[p2].pc = "resent" =>
          \/ page'[p2] = page[p2]
          \/ page'[p2].access = storage'.access /\ Refreshed(q) /\ storage'.access # 0
    <3>1. page \in [Tabs -> PageStates]
      BY DEF BrowserInv, BrowserTypeOK
    <3>2. on.access = storage'.access /\ (on.pc = "resent" => page[p].pc # "refreshing")
          /\ NoPage.pc = "idle" /\ (givesUp => ~goesOn)
          /\ (goesOn => \/ page[p].pc = "refreshing"
                        \/ Refreshed(q) /\ storage'.access # 0)
      BY <2>1 DEF NoPage
    <3> HIDE DEF on, givesUp, goesOn, bare, q
    <3>3. page'[p] \in {NoPage, on, page[p]} /\ (page'[p] = NoPage \/ page'[p] = page[p] \/ goesOn)
      BY <2>1, <3>1
    <3> QED
      BY <2>1, <3>1, <3>2, <3>3
  <2> HIDE DEF q, givesUp, goesOn, bare, on
  <2>4. call[q].answer \in {"ok", "rejected"} /\ call[q].kind = "refresh"
    BY <2>1 DEF Calm, CalmCall
  <2>5. CASE call[q].answer = "ok"
    <3>1. storage' = Received(q)
      BY <2>1, <2>2, <2>5 DEF StoredAfter, Refreshed
    <3> QED
      BY <2>1, <2>3, <2>4, <2>5, <3>1, CalmSettles
  <2>6. CASE call[q].answer = "rejected" /\ storage.refresh # call[q].token
    <3>1. storage' = storage
      BY <2>1, <2>2, <2>6 DEF StoredAfter, StoredIfRejected, Refreshed
    <3> QED
      BY <2>1, <2>3, <2>4, <2>6, <3>1, CalmSettles
  <2>7. CASE call[q].answer = "rejected" /\ storage.refresh = call[q].token
    <3>1. storage' = Empty /\ ~Refreshed(q)
      BY <2>1, <2>7 DEF StoredAfter, StoredIfRejected, Refreshed
    <3> QED
      BY <2>1, <2>3, <2>7, <3>1, CalmSettles
  <2> QED
    BY <2>4, <2>5, <2>6, <2>7
<1>4. CASE SettleUser(p)
  <2> DEFINE q == <<p, "user">>
  <2>1. /\ q \in Requests /\ call[q].pc = "answered" /\ q[2] = "user"
        /\ call' = [call EXCEPT ![q] = NoCall]
        /\ UNCHANGED <<vars, page, trouble>>
        /\ storage' = CASE call[q].kind = "logout" -> Empty
                        [] call[q].kind = "login" /\ call[q].answer = "ok" -> Received(q)
                        [] OTHER -> storage
    BY <1>4 DEF SettleUser
  <2> HIDE DEF q
  <2>2. call[q].kind = "login"
    BY <2>1 DEF BrowserInv, BrowserTypeOK, CallStates, CallFacts, Calm, CalmCall
  <2>3. IF call[q].answer = "ok" THEN storage' = Received(q) ELSE storage' = storage
    BY <2>1, <2>2
  <2> QED
    BY <2>1, <2>3, CalmSettles
<1> QED
  BY <1>2, <1>3, <1>4

LEMMA CalmLogin ==
  ASSUME BrowserInv, Calm, disturbed' = disturbed, NEW p \in Tabs, StartLogin(p)
  PROVE  Calm'
<1> DEFINE q == <<p, "user">>
<1>1. ~Disturb
  BY Numbers DEF BrowserInv, BrowserTypeOK, Disturb
<1>2. /\ q \in Requests /\ q[2] = "user" /\ call[q].pc = "idle"
      /\ call' = [call EXCEPT ![q] = Sent("login", None)]
      /\ storage = Empty /\ Quiet
      /\ UNCHANGED <<vars, storage, page, trouble>>
  BY <1>1 DEF StartLogin
<1> HIDE DEF q
<1>3. PICK kind \in {"refresh", "login"}, t \in Tokens \cup {None} :
        kind = "login" /\ t = None
  OBVIOUS
<1>4. call' = [call EXCEPT ![q] = Sent(kind, t)]
  BY <1>2, <1>3
<1> QED
  BY <1>2, <1>3, <1>4, CalmSends

LEMMA CalmStep ==
  ASSUME BrowserInv, BrowserInv', CalmInv, [BrowserNext]_bvars
  PROVE  CalmInv'
<1> SUFFICES ASSUME disturbed' = 0
             PROVE  Calm'
  BY DEF CalmInv
<1>1. disturbed \in Nat /\ ~Disturb
  BY Numbers DEF BrowserInv, BrowserTypeOK, Disturb
<1>2. CASE UNCHANGED bvars
  BY <1>2, CalmStays DEF bvars, client, CalmInv
<1>3. ASSUME NEW q \in Requests,
             \/ Arrives(q) \/ ServerIssues(q) \/ ServerRejects(q)
             \/ ServerFails(q) \/ NetworkFails(q)
      PROVE  Calm'
  <2>1. ~ServerFails(q) /\ ~NetworkFails(q)
    BY <1>1 DEF ServerFails, NetworkFails
  <2>2. disturbed = 0
    BY <1>3, <2>1 DEF Arrives, ServerIssues, ServerRejects
  <2> QED
    BY <1>3, <2>1, <2>2, CalmArrives, CalmAnswers DEF CalmInv
<1>4. ASSUME NEW s \in Sessions, EndedElsewhere(s)
      PROVE  Calm'
  BY <1>1, <1>4 DEF EndedElsewhere
<1>5. CASE ClockTicks
  <2>1. disturbed' = disturbed
    BY <1>1, <1>5 DEF ClockTicks
  <2> QED
    BY <1>5, <2>1, CalmTicks DEF CalmInv
<1>6. ASSUME NEW p \in Tabs, ClientStep(p)
      PROVE  Calm'
  <2>1. ~StartLogout(p)
    BY <1>1 DEF StartLogout
  <2>2. disturbed' = disturbed
    BY <1>1, <1>6, <2>1, Numbers
       DEF ClientStep, SilentRefresh, OtherRequest, OpenPage, PageAnswered, PageRefused,
           PageRefusedAgain, SettleSilent, SettleShared, StartLogin, SettleUser
  <2> QED
    BY <1>6, <2>1, <2>2, CalmPages, CalmSettlesAll, CalmLogin DEF ClientStep, CalmInv
<1> QED
  BY <1>2, <1>3, <1>4, <1>5, <1>6 DEF BrowserNext, ServerStep

(* Refreshes that overtake each other in the tabs of a browser never lose the *)
(* usable token (refreshAuthToken in api/client.ts, fetchMe in useAuth.ts).   *)
THEOREM StaysSignedIn == BrowserSpec => []ConcurrencyKeepsSignedIn
<1>1. BrowserInit => CalmInv
  <2> SUFFICES ASSUME BrowserInit PROVE Calm
    BY DEF CalmInv
  <2>1. /\ deleted = {} /\ ~trouble /\ storage = Empty
        /\ \A q \in Requests : call[q] = NoCall /\ req[q].pc = "idle"
        /\ \A p \in Tabs : page[p].pc = "idle"
        /\ \A t \in Tokens : ~Usable(t)
    BY DEF BrowserInit, Init, Idle, NoPage, NoToken, Usable
  <2>2. \A q \in Requests : ~Carrying(q) /\ ~Spent(q) /\ ~Answered(q)
    BY <2>1 DEF Carrying, Spent, Answered, NoCall
  <2>3. \A q \in Requests : CalmCall(q) /\ LoginAlone(q) /\ OvertakenByFresh(q)
    BY <2>1, <2>2 DEF CalmCall, LoginAlone, OvertakenByFresh, NoCall
  <2> QED
    BY <2>1, <2>2, <2>3 DEF Calm, OneCarrier, NothingLost, RetryIsHarmless
<1>2. BrowserInv /\ CalmInv => ConcurrencyKeepsSignedIn
  BY DEF CalmInv, Calm, NothingLost, Held, Answered, ConcurrencyKeepsSignedIn, Quiet
<1> QED
  BY <1>1, <1>2, CalmStep, BrowserInvariance, PTL DEF BrowserSpec
=============================================================================

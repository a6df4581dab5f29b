------------------------------- MODULE SignIn -------------------------------
(***************************************************************************)
(* Signing in with a one-time code: the dialog of client/src/components    *)
(* (AuthPopover, SignInForm), its calls (hooks/useAuth.ts) and the         *)
(* statements the server runs for them (server/src/domains/auth), none of  *)
(* which is in a transaction.  Every step of a call is one statement, so   *)
(* the calls of several tabs interleave between any two of them.           *)
(*                                                                         *)
(* The model is of one address that has an account.  Time is counted in    *)
(* ages: Tick makes every failure and every code one unit older.           *)
(***************************************************************************)
EXTENDS Integers, Sequences, FiniteSets

CONSTANTS Tabs,         \* browser tabs, each with one sign-in dialog
          Calls,        \* calls the server can be serving at a time
          FailLimit,    \* failures that lock the address (5)
          LockWindow,   \* age at which a failure no longer counts (5 min)
          CodeLife,     \* age at which a code expires (10 min)
          MaxCodes,     \* bound: codes created
          None

ASSUME SignInAssumption == /\ FailLimit \in Nat \ {0}
                           /\ LockWindow \in Nat \ {0}
                           /\ CodeLife \in Nat \ {0}
                           /\ MaxCodes \in Nat
                           /\ IsFiniteSet(Calls)
                           /\ None \notin Tabs \union {"request", "verify"}

VARIABLES dialog,       \* of every tab: what its dialog shows
          call,         \* of every call: what it does and how far it is
          fails,        \* otp_fails: the ages of the failures, oldest first
          codes,        \* otp_codes in the order they were created
          inbox,        \* codes that were mailed
          cut           \* a request stopped after it had invalidated the
                        \* codes, and no code was created since

vars == <<dialog, call, fails, codes, inbox, cut>>

-----------------------------------------------------------------------------
(* The dialog.                                                             *)

Closed == [open |-> FALSE, mode |-> "otp", step |-> "request", locked |-> FALSE]
Fresh  == [Closed EXCEPT !.open = TRUE]

Idle == [kind |-> None, pc |-> "idle", tab |-> None, mounted |-> FALSE,
         guess |-> 0, found |-> 0]

CallStates ==
    [kind : {None, "request", "verify"},
     pc : {"idle", "sent", "admitted", "checked", "invalidated", "stored",
           "missed", "recorded", "matched", "marked"},
     tab : Tabs \union {None}, mounted : BOOLEAN, guess : Nat, found : Nat]

\* The form of a tab waits for a call of this kind.  A dialog that was closed
\* and opened again is another form, which knows nothing of the call.
Pending(t, kind) ==
    \E c \in Calls : /\ call[c].tab = t
                     /\ call[c].kind = kind
                     /\ call[c].mounted

\* A failure is forgotten when it no longer counts.
Ages == 0 .. LockWindow - 1
NoFails == << >>

Init == /\ dialog = [t \in Tabs |-> Closed]
        /\ call = [c \in Calls |-> Idle]
        /\ fails = NoFails
        /\ codes = << >>
        /\ inbox = {}
        /\ cut = FALSE

Server == <<fails, codes, inbox, cut>>

\* The dialog opens with a new form; closing it drops the form but not
\* the call it waits for.
Orphaned(t) == [c \in Calls |-> IF call[c].tab = t
                                THEN [call[c] EXCEPT !.mounted = FALSE]
                                ELSE call[c]]

Open(t) == /\ ~dialog[t].open
           /\ dialog' = [dialog EXCEPT ![t] = Fresh]
           /\ UNCHANGED <<call, Server>>

Close(t) == /\ dialog[t].open
            /\ dialog' = [dialog EXCEPT ![t] = Closed]
            /\ call' = Orphaned(t)
            /\ UNCHANGED Server

SwitchMode(t) ==
    /\ dialog[t].open
    /\ dialog' = [dialog EXCEPT ![t] =
                    IF @.mode = "otp"
                    THEN [@ EXCEPT !.mode = "password", !.locked = FALSE]
                    ELSE Fresh]
    /\ UNCHANGED <<call, Server>>

\* "Change the address": back to the first step, a lock banner stays.
ChangeAddress(t) ==
    /\ dialog[t].open /\ dialog[t].mode = "otp" /\ dialog[t].step = "verify"
    /\ dialog' = [dialog EXCEPT ![t].step = "request"]
    /\ UNCHANGED <<call, Server>>

\* A form is submitted: the call leaves and the error shown before is gone.
Submit(t, c, kind, guess) ==
    /\ dialog[t].open
    /\ call[c] = Idle
    /\ ~Pending(t, kind)
    /\ call' = [call EXCEPT ![c] = [Idle EXCEPT !.kind = kind, !.pc = "sent",
                                    !.tab = t, !.mounted = TRUE,
                                    !.guess = guess]]
    /\ dialog' = [dialog EXCEPT ![t].locked = FALSE]
    /\ UNCHANGED Server

SubmitRequest(t, c) ==
    /\ dialog[t].mode = "otp" /\ dialog[t].step = "request"
    /\ ~dialog[t].locked
    /\ Submit(t, c, "request", 0)

\* What is typed is a code of the inbox, or no code at all (0).
SubmitVerify(t, c) ==
    /\ dialog[t].mode = "otp" /\ dialog[t].step = "verify"
    /\ ~dialog[t].locked
    /\ \E guess \in inbox \union {0} : Submit(t, c, "verify", guess)

\* A password is compared without any of this state: the call is one step,
\* and what is seen of it is whether it closes the dialog.
SubmitPassword(t) ==
    /\ dialog[t].open /\ dialog[t].mode = "password"
    /\ dialog' = [dialog EXCEPT ![t] = Closed]
    /\ call' = Orphaned(t)
    /\ UNCHANGED Server

\* The dialog after the answer to c.  A sign-in closes the tab's dialog even
\* if the form that asked is gone; the rest is the form's own state.
Shown(c, answer) ==
    LET d == dialog[call[c].tab]
    IN  CASE answer = "ok" /\ call[c].kind = "verify" -> Closed
          [] answer = "ok" /\ call[c].kind = "request" /\ call[c].mounted ->
                [d EXCEPT !.step = "verify"]
          [] answer = "locked" /\ call[c].mounted -> [d EXCEPT !.locked = TRUE]
          [] OTHER -> d

Answer(c, answer) ==
    /\ dialog' = [dialog EXCEPT ![call[c].tab] = Shown(c, answer)]
    /\ call' = [(IF dialog'[call[c].tab].open THEN call ELSE Orphaned(call[c].tab))
                  EXCEPT ![c] = Idle]

-----------------------------------------------------------------------------
(* The server.                                                             *)

Recent == Len(fails)
Locked_OneMore == Recent > FailLimit
Locked == Recent >= FailLimit

At(c, kind, pc) == call[c].kind = kind /\ call[c].pc = pc

Goto(c, pc) == /\ call' = [call EXCEPT ![c].pc = pc]
               /\ UNCHANGED dialog

\* check_email_lockout: the call goes on only if the address is not locked.
CheckLockout(c, kind, from, to) ==
    /\ At(c, kind, from)
    /\ IF Locked THEN Answer(c, "locked") ELSE Goto(c, to)
    /\ UNCHANGED Server

\* request_otp checks before it looks for the user, create_otp_code again.
RequestArrives(c) == CheckLockout(c, "request", "sent", "admitted")
CreateCode(c)     == CheckLockout(c, "request", "admitted", "checked")
VerifyArrives(c)  == CheckLockout(c, "verify", "sent", "checked")

\* What set used_at: nothing yet, a request for another code, or a number of
\* guesses that took the code.
Nobody == 0
Replaced == -1
Unused(i) == codes[i].used = Nobody
Taken(i) == IF codes[i].used = Replaced THEN 0 ELSE codes[i].used

\* The guesses that have read code i as unused and will take it.
Rivals(i) == {c \in Calls : call[c].pc = "matched" /\ call[c].found = i}

InvalidateCodes(c) ==
    /\ At(c, "request", "checked")
    /\ codes' = [i \in DOMAIN codes |->
                    IF Unused(i) THEN [codes[i] EXCEPT !.used = Replaced]
                    ELSE codes[i]]
    /\ Goto(c, "invalidated")
    /\ UNCHANGED <<fails, inbox, cut>>

\* Mutant: the codes are invalidated after the new one is stored.
InsertCode_ThenInvalidate(c) ==
    /\ At(c, "request", "invalidated")
    /\ Len(codes) < MaxCodes
    /\ codes' = [i \in 1 .. Len(codes) + 1 |-> [age |-> 0, used |-> Replaced, rivals |-> 0]]
    /\ call' = [call EXCEPT ![c].pc = "stored", ![c].found = Len(codes) + 1]
    /\ cut' = FALSE
    /\ UNCHANGED <<dialog, fails, inbox>>

InsertCode(c) ==
    /\ At(c, "request", "invalidated")
    /\ Len(codes) < MaxCodes
    /\ codes' = Append(codes, [age |-> 0, used |-> Nobody, rivals |-> 0])
    /\ call' = [call EXCEPT ![c].pc = "stored", ![c].found = Len(codes) + 1]
    /\ cut' = FALSE
    /\ UNCHANGED <<dialog, fails, inbox>>

MailCode(c) ==
    /\ At(c, "request", "stored")
    /\ inbox' = inbox \union {call[c].found}
    /\ Answer(c, "ok")
    /\ UNCHANGED <<fails, codes, cut>>

\* The newest unused code with the hash of what was typed, if it is not expired.
Matches_UsedToo(guess, i) == i = guess
Matches(guess, i) == i = guess /\ Unused(i)

SelectCode(c) ==
    /\ At(c, "verify", "checked")
    /\ LET hits == {i \in DOMAIN codes : /\ Matches(call[c].guess, i)
                                         /\ codes[i].age < CodeLife}
       IN  IF hits = {} THEN call' = [call EXCEPT ![c].pc = "missed", ![c].guess = 0]
           ELSE \E i \in hits :
                  call' = [call EXCEPT ![c].pc = "matched", ![c].guess = 0,
                                                    ![c].found = i]
    /\ UNCHANGED <<dialog, Server>>

RecordFail(c) ==
    /\ At(c, "verify", "missed")
    /\ fails' = Append(fails, 0)
    /\ Goto(c, "recorded")
    /\ UNCHANGED <<codes, inbox, cut>>

CountFails(c) ==
    /\ At(c, "verify", "recorded")
    /\ Answer(c, IF Locked THEN "locked" ELSE "wrong")
    /\ UNCHANGED Server

\* The row is found again by its id: whether it is still unused is not asked.
\* The history keeps how many guesses held the code when it was first taken.
MarkUsed(c) ==
    /\ At(c, "verify", "matched")
    /\ LET i == call[c].found
       IN  codes' = [codes EXCEPT
             ![i].used = Taken(i) + 1,
             ![i].rivals = IF Taken(i) = 0 THEN Cardinality(Rivals(i)) ELSE @]
    /\ Goto(c, "marked")
    /\ UNCHANGED <<fails, inbox, cut>>

\* What follows in the call, the user's row and a new session, belongs to
\* module Sessions; here it succeeds or fails.
ClearFails(c) ==
    /\ At(c, "verify", "marked")
    /\ fails' = NoFails
    /\ \E answer \in {"ok", "failed"} : Answer(c, answer)
    /\ UNCHANGED <<codes, inbox, cut>>

\* A statement or the mail server fails, or the server stops: what was done
\* before stays done.
Breaks(c) ==
    /\ call[c] # Idle
    /\ Answer(c, "failed")
    /\ cut' = (cut \/ At(c, "request", "invalidated"))
    /\ UNCHANGED <<fails, codes, inbox>>

\* Mutant: every failure counts, however old.
Tick_NoWindow ==
    /\ fails' = [i \in DOMAIN fails |-> IF fails[i] + 1 \in Ages THEN fails[i] + 1
                                       ELSE fails[i]]
    /\ UNCHANGED <<dialog, call, codes, inbox, cut>>

\* How many failures will count when they are one unit older: the newest.
Staying == Cardinality({i \in DOMAIN fails : fails[i] + 1 \in Ages})

\* Only the age of an unused code matters to anything.
Tick ==
    /\ fails' = [i \in 1 .. Staying |-> fails[Len(fails) - Staying + i] + 1]
    /\ codes' = [i \in DOMAIN codes |->
                   IF Unused(i) /\ codes[i].age < CodeLife
                   THEN [codes[i] EXCEPT !.age = @ + 1] ELSE codes[i]]
    /\ UNCHANGED <<dialog, call, inbox, cut>>

Serve(c) == \/ RequestArrives(c) \/ CreateCode(c) \/ InvalidateCodes(c)
            \/ InsertCode(c) \/ MailCode(c)
            \/ VerifyArrives(c) \/ SelectCode(c) \/ RecordFail(c)
            \/ CountFails(c) \/ MarkUsed(c) \/ ClearFails(c)

Next == \/ \E t \in Tabs : \/ Open(t) \/ Close(t) \/ SwitchMode(t)
                             \/ ChangeAddress(t) \/ SubmitPassword(t)
        \/ \E t \in Tabs, c \in Calls : SubmitRequest(t, c) \/ SubmitVerify(t, c)
        \/ \E c \in Calls : Serve(c) \/ Breaks(c)
        \/ Tick

\* Time passes whatever the calls do.
Spec == Init /\ [][Next]_vars /\ WF_vars(Tick)

-----------------------------------------------------------------------------
TypeOK ==
    /\ dialog \in [Tabs -> [open : BOOLEAN, mode : {"otp", "password"},
                            step : {"request", "verify"}, locked : BOOLEAN]]
    /\ call \in [Calls -> CallStates]
    /\ fails \in Seq(Ages)
    /\ codes \in Seq([age : 0 .. CodeLife, used : Nat \union {Replaced}, rivals : Nat])
    /\ inbox \subseteq DOMAIN codes

\* However many guesses run at once, the failures that count never exceed the
\* limit by more than the guesses that had passed check_email_lockout
\* (auth/db.rs:451, "Enforces lockout if 5 or more failed attempts occur").
LockoutBounded ==
    Recent + Cardinality({c \in Calls : /\ call[c].kind = "verify"
                                        /\ call[c].pc \in {"checked", "missed"}})
        <= FailLimit - 1 + Cardinality(Calls)

\* The code created last is not invalidated by anybody else's request, unless
\* one is under way or stopped half way: the newest mail always holds a code
\* that works (create_otp_code, auth/db.rs:413-446).
NewestCodeWorks ==
    codes # << >> /\ codes[Len(codes)].used = Replaced =>
        cut \/ \E c \in Calls : At(c, "request", "invalidated")

\* A one-time code is taken more than once only by guesses that raced for it:
\* whoever takes it had read it as unused before the first of them marked it.
\* A guess that comes after that never does (auth/db.rs:467-517, where the code
\* is read as unused in one statement and marked used in another).
OnlyRivalsShareACode ==
    \A i \in DOMAIN codes : codes[i].used <= codes[i].rivals

\* A locked address does not stay locked, whatever is tried meanwhile: a refused
\* attempt does not prolong the lock (auth/db.rs:340-361).
LockEnds == Locked ~> ~Locked
=============================================================================

---------------------------- MODULE SignIn_proofs -----------------------------
(***************************************************************************)
(* Theorems about SignIn, for any number of tabs and of calls the server   *)
(* can be serving, and any limits: how far guesses that race overshoot the *)
(* lock, how often a code is taken, and that the newest code works.        *)
(***************************************************************************)
EXTENDS SignIn, FiniteSetTheorems, TLAPS

(* Guesses that passed the check of the lock and have not been counted *)
Guessing == {c \in Calls : call[c].kind = "verify" /\ call[c].pc \in {"checked", "missed"}}

(* Those that took a code and those that still hold it are the rivals of the first. *)
TakersBounded ==
  \A i \in DOMAIN codes :
    Taken(i) # 0 => Taken(i) + Cardinality(Rivals(i)) <= codes[i].rivals

(* What a call remembers is a code. *)
Remembered ==
  \A c \in Calls : call[c].pc \in {"stored", "matched"} => call[c].found \in DOMAIN codes

(* The failures are in the order in which they were made. *)
YoungestLast == \A i, j \in DOMAIN fails : i <= j => fails[j] <= fails[i]

SignInInv ==
  /\ TypeOK
  /\ YoungestLast
  /\ Remembered
  /\ LockoutBounded
  /\ TakersBounded
  /\ NewestCodeWorks

-----------------------------------------------------------------------------
LEMMA Limits ==
  /\ FailLimit \in Nat \ {0} /\ LockWindow \in Nat \ {0} /\ CodeLife \in Nat \ {0}
  /\ IsFiniteSet(Calls) /\ Cardinality(Calls) \in Nat
  /\ None \notin Tabs \union {"request", "verify"}
BY SignInAssumption, FS_CardinalityType

LEMMA IdleType ==
  /\ Idle \in CallStates /\ Idle.pc = "idle" /\ Idle.kind = None
BY DEF Idle, CallStates

LEMMA ElementsAre ==
  ASSUME NEW S, NEW s \in Seq(S)
  PROVE  Len(s) \in Nat /\ DOMAIN s = 1..Len(s) /\ \A i \in DOMAIN s : s[i] \in S
OBVIOUS

CodeRows == [age : 0 .. CodeLife, used : Nat \union {Replaced}, rivals : Nat]

LEMMA CodesAre ==
  ASSUME TypeOK
  PROVE  /\ codes \in Seq(CodeRows) /\ DOMAIN codes = 1..Len(codes) /\ Len(codes) \in Nat
         /\ \A i \in DOMAIN codes :
              /\ codes[i] \in CodeRows
              /\ codes[i].age \in 0 .. CodeLife /\ codes[i].used \in Nat \union {Replaced}
              /\ codes[i].rivals \in Nat
<1>1. codes \in Seq(CodeRows)
  BY DEF TypeOK, CodeRows
<1>2. DOMAIN codes = 1..Len(codes) /\ Len(codes) \in Nat
      /\ \A i \in DOMAIN codes : codes[i] \in CodeRows
  BY <1>1, ElementsAre
<1> QED
  BY <1>1, <1>2 DEF CodeRows

LEMMA Fewer ==
  ASSUME NEW S \in SUBSET Calls, NEW R \in SUBSET S
  PROVE  /\ Cardinality(S) \in Nat /\ Cardinality(R) \in Nat
         /\ Cardinality(R) <= Cardinality(S) /\ Cardinality(S) <= Cardinality(Calls)
<1>1. IsFiniteSet(S) /\ Cardinality(S) <= Cardinality(Calls)
  BY Limits, FS_Subset
<1>2. IsFiniteSet(R) /\ Cardinality(R) <= Cardinality(S)
  BY <1>1, FS_Subset
<1> QED
  BY <1>1, <1>2, FS_CardinalityType

LEMMA OneFewer ==
  ASSUME NEW S \in SUBSET Calls, NEW c \in S
  PROVE  Cardinality(S \ {c}) = Cardinality(S) - 1
<1>1. IsFiniteSet(S)
  BY Limits, FS_Subset
<1> QED
  BY <1>1, FS_RemoveElement

LEMMA IntervalSize ==
  ASSUME NEW a \in Nat, NEW b \in Nat, a <= b
  PROVE  IsFiniteSet(a + 1 .. b) /\ Cardinality(a + 1 .. b) = b - a
<1>1. a + 1 \in Int /\ b \in Int
  OBVIOUS
<1>2. /\ IsFiniteSet(a + 1 .. b)
      /\ Cardinality(a + 1 .. b) = IF a + 1 > b THEN 0 ELSE b - (a + 1) + 1
  BY <1>1, FS_Interval
<1> QED
  BY <1>2

(* The failures that stay are some of those there were. *)
LEMMA StayingFewer ==
  ASSUME fails \in Seq(Ages)
  PROVE  Staying \in 0..Len(fails)
<1>1. Len(fails) \in Nat /\ DOMAIN fails = 1..Len(fails)
  OBVIOUS
<1>2. IsFiniteSet(1..Len(fails)) /\ Cardinality(1..Len(fails)) = Len(fails)
  <2>1. CASE Len(fails) = 0
    <3>1. 1..Len(fails) = {}
      BY <2>1
    <3> QED
      BY <2>1, <3>1, FS_EmptySet
  <2>2. CASE Len(fails) # 0
    BY <1>1, <2>2, FS_Interval
  <2> QED
    BY <2>1, <2>2
<1> DEFINE young == {i \in DOMAIN fails : fails[i] + 1 \in Ages}
<1>3. IsFiniteSet(young) /\ Cardinality(young) <= Len(fails)
  BY <1>1, <1>2, FS_Subset
<1> QED
  BY <1>1, <1>3, FS_CardinalityType DEF Staying

(* And they are the newest. *)
LEMMA StayingYoung ==
  ASSUME fails \in Seq(Ages), YoungestLast, NEW i \in DOMAIN fails, i > Len(fails) - Staying
  PROVE  fails[i] + 1 \in Ages
<1>1. Len(fails) \in Nat /\ DOMAIN fails = 1..Len(fails) /\ \A k \in DOMAIN fails : fails[k] \in Ages
  BY ElementsAre
<1>2. Staying \in 0..Len(fails)
  BY StayingFewer
<1> DEFINE young == {k \in DOMAIN fails : fails[k] + 1 \in Ages}
<1> SUFFICES ASSUME fails[i] + 1 \notin Ages
             PROVE  FALSE
  OBVIOUS
<1>3. young \in SUBSET (i + 1 .. Len(fails))
  <2> SUFFICES ASSUME NEW k \in young, k <= i
               PROVE  FALSE
    BY <1>1
  <2>1. fails[i] <= fails[k] /\ fails[k] \in Nat /\ fails[i] \in Nat /\ fails[k] + 1 \in Ages
    BY <1>1, Limits DEF YoungestLast, Ages
  <2> QED
    BY <2>1, Limits DEF Ages
<1>4. /\ IsFiniteSet(i + 1 .. Len(fails))
      /\ Cardinality(i + 1 .. Len(fails)) = Len(fails) - i
  BY <1>1, IntervalSize
<1>5. Cardinality(young) <= Cardinality(i + 1 .. Len(fails))
  BY <1>3, <1>4, FS_Subset
<1>6. Cardinality(young) = Staying
  BY DEF Staying
<1> QED
  BY <1>1, <1>2, <1>4, <1>5, <1>6

-----------------------------------------------------------------------------
(* Types *)

Dialogs == [open : BOOLEAN, mode : {"otp", "password"}, step : {"request", "verify"},
            locked : BOOLEAN]

LEMMA FormTypes == Closed \in Dialogs /\ Fresh \in Dialogs
BY DEF Closed, Fresh, Dialogs

(* A call that goes on keeps what it is. *)
LEMMA GotoStep ==
  ASSUME TypeOK, NEW c \in Calls, NEW pc \in {"admitted", "checked", "invalidated", "recorded", "marked"},
         Goto(c, pc)
  PROVE  /\ call' \in [Calls -> CallStates] /\ call'[c].pc = pc /\ call'[c].kind = call[c].kind
         /\ \A d \in Calls \ {c} : call'[d] = call[d]
         /\ dialog' = dialog
<1> DEFINE x == [call[c] EXCEPT !.pc = pc]
<1>1. call \in [Calls -> CallStates] /\ call[c] \in CallStates
  BY DEF TypeOK
<1>2. x \in CallStates /\ x.pc = pc /\ x.kind = call[c].kind
  BY <1>1 DEF CallStates
<1>3. call' = [call EXCEPT ![c] = x] /\ dialog' = dialog
  BY <1>1 DEF Goto
<1> HIDE DEF x
<1> QED
  BY <1>1, <1>2, <1>3

(* Dropping a form changes nothing else of a call. *)
LEMMA OrphanedStep ==
  ASSUME TypeOK, NEW t
  PROVE  /\ Orphaned(t) \in [Calls -> CallStates]
         /\ \A d \in Calls : /\ Orphaned(t)[d].pc = call[d].pc
                             /\ Orphaned(t)[d].kind = call[d].kind
                             /\ Orphaned(t)[d].found = call[d].found
<1> SUFFICES ASSUME NEW d \in Calls
             PROVE  /\ Orphaned(t)[d] \in CallStates
                    /\ Orphaned(t)[d].pc = call[d].pc /\ Orphaned(t)[d].kind = call[d].kind
                    /\ Orphaned(t)[d].found = call[d].found
  BY DEF Orphaned
<1>1. call[d] \in CallStates
  BY DEF TypeOK
<1>2. Orphaned(t)[d] = call[d] \/ Orphaned(t)[d] = [call[d] EXCEPT !.mounted = FALSE]
  BY DEF Orphaned
<1> QED
  BY <1>1, <1>2 DEF CallStates

(* An answered call is over; its tab may close, and other calls lose their form. *)
LEMMA AnswerStep ==
  ASSUME TypeOK, NEW c \in Calls, NEW answer, Answer(c, answer)
  PROVE  /\ call' \in [Calls -> CallStates] /\ call'[c] = Idle
         /\ \A d \in Calls \ {c} : /\ call'[d].pc = call[d].pc
                                   /\ call'[d].kind = call[d].kind
                                   /\ call'[d].found = call[d].found
         /\ dialog' \in [Tabs -> Dialogs]
<1>1. call \in [Calls -> CallStates] /\ dialog \in [Tabs -> Dialogs]
  BY DEF TypeOK, Dialogs
<1>2. PICK f \in [Calls -> CallStates] :
        /\ call' = [f EXCEPT ![c] = Idle]
        /\ \A d \in Calls : /\ f[d].pc = call[d].pc /\ f[d].kind = call[d].kind
                            /\ f[d].found = call[d].found
  BY <1>1, OrphanedStep DEF Answer
<1>3. dialog' \in [Tabs -> Dialogs]
  <2> DEFINE t == call[c].tab
  <2>1. dialog' = [dialog EXCEPT ![t] = Shown(c, answer)]
    BY DEF Answer
  <2>2. CASE t \notin Tabs
    BY <1>1, <2>1, <2>2
  <2>3. CASE t \in Tabs
    <3>1. dialog[t] \in Dialogs
      BY <1>1, <2>3
    <3>2. /\ [dialog[t] EXCEPT !.step = "verify"] \in Dialogs
          /\ [dialog[t] EXCEPT !.locked = TRUE] \in Dialogs
      BY <3>1 DEF Dialogs
    <3>3. Shown(c, answer) \in Dialogs
      BY <3>1, <3>2, FormTypes DEF Shown
    <3> QED
      BY <1>1, <2>1, <3>3
  <2> QED
    BY <2>2, <2>3
<1> QED
  BY <1>2, <1>3, IdleType

(* Steps of the dialog only start calls. *)
LEMMA DialogStep ==
  ASSUME TypeOK, NEW t \in Tabs,
         \/ Open(t) \/ Close(t) \/ SwitchMode(t) \/ ChangeAddress(t) \/ SubmitPassword(t)
         \/ \E c \in Calls : SubmitRequest(t, c) \/ SubmitVerify(t, c)
  PROVE  /\ TypeOK'
         /\ UNCHANGED Server
         /\ \A d \in Calls : /\ call'[d].pc = call[d].pc \/ (call'[d].pc = "sent" /\ call[d].pc = "idle")
                             /\ call[d].pc # "idle" => call'[d].kind = call[d].kind
                             /\ call[d].pc # "idle" => call'[d].found = call[d].found
<1>1. /\ call \in [Calls -> CallStates] /\ dialog \in [Tabs -> Dialogs] /\ dialog[t] \in Dialogs
      /\ UNCHANGED Server
  BY DEF TypeOK, Dialogs, Open, Close, SwitchMode, ChangeAddress, SubmitPassword,
         SubmitRequest, SubmitVerify, Submit
<1>2. dialog' \in [Tabs -> Dialogs]
  <2>1. PICK x : dialog' = [dialog EXCEPT ![t] = x] /\ x \in Dialogs
    <3>1. /\ [dialog[t] EXCEPT !.mode = "password", !.locked = FALSE] \in Dialogs
          /\ [dialog[t] EXCEPT !.step = "request"] \in Dialogs
          /\ [dialog[t] EXCEPT !.locked = FALSE] \in Dialogs
      BY <1>1 DEF Dialogs
    <3>2. CASE Open(t) \/ Close(t) \/ SubmitPassword(t)
      BY <3>2, FormTypes DEF Open, Close, SubmitPassword
    <3>3. CASE SwitchMode(t)
      BY <1>1, <3>1, <3>3, FormTypes DEF SwitchMode
    <3>4. CASE ChangeAddress(t)
      BY <1>1, <3>1, <3>4 DEF ChangeAddress
    <3>5. CASE \E c \in Calls : SubmitRequest(t, c) \/ SubmitVerify(t, c)
      BY <1>1, <3>1, <3>5 DEF SubmitRequest, SubmitVerify, Submit
    <3> QED
      BY <3>2, <3>3, <3>4, <3>5
  <2> QED
    BY <1>1, <2>1
<1>3. /\ call' \in [Calls -> CallStates]
      /\ \A d \in Calls : /\ call'[d].pc = call[d].pc \/ (call'[d].pc = "sent" /\ call[d].pc = "idle")
                          /\ call[d].pc # "idle" => call'[d].kind = call[d].kind
                          /\ call[d].pc # "idle" => call'[d].found = call[d].found
  <2>1. CASE call' = call
    BY <1>1, <2>1
  <2>2. CASE call' = Orphaned(t)
    BY <2>2, OrphanedStep
  <2>3. ASSUME NEW c \in Calls, SubmitRequest(t, c) \/ SubmitVerify(t, c)
        PROVE  /\ call' \in [Calls -> CallStates]
               /\ \A d \in Calls : call'[d] = call[d] \/ (call'[d].pc = "sent" /\ call[d].pc = "idle")
    <3>1. PICK kind \in {"request", "verify"}, guess \in Nat : Submit(t, c, kind, guess)
      BY <2>3 DEF SubmitRequest, SubmitVerify, TypeOK
    <3> DEFINE x == [Idle EXCEPT !.kind = kind, !.pc = "sent", !.tab = t, !.mounted = TRUE,
                                 !.guess = guess]
    <3>2. x \in CallStates /\ x.pc = "sent"
      BY DEF Idle, CallStates
    <3>3. call' = [call EXCEPT ![c] = x] /\ call[c].pc = "idle"
      BY <3>1, IdleType DEF Submit
    <3> HIDE DEF x
    <3> QED
      BY <1>1, <3>2, <3>3
  <2>4. \/ call' = call \/ call' = Orphaned(t)
        \/ \E c \in Calls : SubmitRequest(t, c) \/ SubmitVerify(t, c)
    BY DEF Open, Close, SwitchMode, ChangeAddress, SubmitPassword
  <2> QED
    BY <2>1, <2>2, <2>3, <2>4
<1> QED
  BY <1>1, <1>2, <1>3 DEF TypeOK, Dialogs, Server

-----------------------------------------------------------------------------
(* What keeps the invariant: no more failures, guesses and takers than there   *)
(* were.                                                                       *)
LEMMA Quietly ==
  ASSUME SignInInv, TypeOK', YoungestLast', Len(fails') <= Len(fails),
         DOMAIN codes' = DOMAIN codes,
         \A i \in DOMAIN codes : codes'[i].used = codes[i].used /\ codes'[i].rivals = codes[i].rivals,
         \A c \in Calls :
           /\ call'[c].pc \in {"stored", "matched"} =>
                call'[c].found = call[c].found /\ call[c].pc \in {"stored", "matched"}
           /\ call'[c].pc = "matched" => call[c].pc = "matched"
           /\ call'[c].kind = "verify" /\ call'[c].pc \in {"checked", "missed"} => c \in Guessing,
         cut \/ (\E c \in Calls : At(c, "request", "invalidated")) =>
           (cut \/ \E c \in Calls : At(c, "request", "invalidated"))'
  PROVE  SignInInv'
<1>1. Remembered'
  BY DEF SignInInv, Remembered
<1>2. LockoutBounded'
  <2>1. Guessing \in SUBSET Calls /\ Guessing' \in SUBSET Guessing
    BY DEF Guessing
  <2>2. Cardinality(Guessing') <= Cardinality(Guessing)
        /\ Cardinality(Guessing) \in Nat /\ Cardinality(Guessing') \in Nat
    BY <2>1, Fewer
  <2>3. Len(fails) \in Nat /\ Len(fails') \in Nat
    BY DEF SignInInv, TypeOK
  <2>4. Len(fails) + Cardinality(Guessing) <= FailLimit - 1 + Cardinality(Calls)
    BY DEF SignInInv, LockoutBounded, Guessing, Recent
  <2>5. Len(fails') + Cardinality(Guessing') <= FailLimit - 1 + Cardinality(Calls)
    BY <2>2, <2>3, <2>4, Limits
  <2> QED
    BY <2>5 DEF LockoutBounded, Guessing, Recent
<1>3. TakersBounded'
  <2> SUFFICES ASSUME NEW i \in DOMAIN codes, Taken(i)' # 0
               PROVE  Taken(i)' + Cardinality(Rivals(i)') <= codes[i].rivals
    BY DEF TakersBounded
  <2>1. Rivals(i) \in SUBSET Calls /\ Rivals(i)' \in SUBSET Rivals(i)
    BY DEF Rivals
  <2>2. Cardinality(Rivals(i)') <= Cardinality(Rivals(i))
        /\ Cardinality(Rivals(i)) \in Nat /\ Cardinality(Rivals(i)') \in Nat
    BY <2>1, Fewer
  <2>3. Taken(i)' = Taken(i) /\ Taken(i) \in Nat
    <3>1. codes[i].used \in Nat \union {Replaced}
      BY CodesAre DEF SignInInv
    <3> QED
      BY <3>1 DEF Taken
  <2>4. Taken(i) + Cardinality(Rivals(i)) <= codes[i].rivals /\ codes[i].rivals \in Nat
    BY <2>3, CodesAre DEF SignInInv, TakersBounded
  <2> QED
    BY <2>2, <2>3, <2>4
<1>4. NewestCodeWorks'
  <2>1. Len(codes') = Len(codes) /\ (codes' # << >> => Len(codes) \in DOMAIN codes /\ codes # << >>)
    BY DEF SignInInv, TypeOK
  <2> QED
    BY <2>1 DEF SignInInv, NewestCodeWorks
<1> QED
  BY <1>1, <1>2, <1>3, <1>4 DEF SignInInv

LEMMA DialogKeeps ==
  ASSUME SignInInv, NEW t \in Tabs,
         \/ Open(t) \/ Close(t) \/ SwitchMode(t) \/ ChangeAddress(t) \/ SubmitPassword(t)
         \/ \E c \in Calls : SubmitRequest(t, c) \/ SubmitVerify(t, c)
  PROVE  SignInInv'
<1>1. /\ TypeOK' /\ UNCHANGED <<fails, codes, cut>> /\ Len(fails) \in Nat
      /\ \A d \in Calls : /\ call'[d].pc = call[d].pc \/ (call'[d].pc = "sent" /\ call[d].pc = "idle")
                          /\ call[d].pc # "idle" => call'[d].kind = call[d].kind
                          /\ call[d].pc # "idle" => call'[d].found = call[d].found
  BY DialogStep DEF SignInInv, Server, TypeOK
<1> QED
  BY <1>1, Quietly DEF Guessing, At, SignInInv, YoungestLast

(* The calls that only look, or are over *)
LEMMA LooksKeep ==
  ASSUME SignInInv, NEW c \in Calls,
         \/ RequestArrives(c) \/ CreateCode(c) \/ MailCode(c) \/ CountFails(c)
         \/ ClearFails(c) \/ Breaks(c)
  PROVE  SignInInv'
<1>0. TypeOK /\ Len(fails) \in Nat /\ call[c] \in CallStates
  BY DEF SignInInv, TypeOK
<1>1. \/ Goto(c, "admitted") /\ call[c].kind = "request" /\ UNCHANGED Server
      \/ Goto(c, "checked") /\ call[c].kind = "request" /\ call[c].pc = "admitted" /\ UNCHANGED Server
      \/ \E answer : Answer(c, answer)
  BY DEF RequestArrives, CreateCode, MailCode, CountFails, ClearFails, Breaks, CheckLockout, At
<1>2. /\ UNCHANGED codes /\ fails' \in Seq(Ages) /\ Len(fails') <= Len(fails)
      /\ inbox' \subseteq inbox \union (IF MailCode(c) THEN {call[c].found} ELSE {})
  <2>1. fails' = fails \/ fails' = << >>
    BY DEF RequestArrives, CreateCode, MailCode, CountFails, ClearFails, Breaks,
           CheckLockout, Server, NoFails
  <2>2. UNCHANGED codes /\ (inbox' = inbox \/ MailCode(c))
    BY DEF RequestArrives, CreateCode, MailCode, CountFails, ClearFails, Breaks,
           CheckLockout, Server
  <2>3. << >> \in Seq(Ages) /\ Len(<< >>) = 0 /\ fails \in Seq(Ages)
    BY <1>0 DEF TypeOK
  <2>4. MailCode(c) => inbox' = inbox \union {call[c].found}
    BY DEF MailCode
  <2>5. fails' \in Seq(Ages) /\ Len(fails') <= Len(fails)
    <3>1. CASE fails' = fails
      BY <1>0, <2>3, <3>1
    <3>2. CASE fails' = << >>
      BY <1>0, <2>3, <3>2
    <3> QED
      BY <2>1, <3>1, <3>2
  <2>6. CASE MailCode(c)
    BY <2>2, <2>4, <2>5, <2>6
  <2>7. CASE ~MailCode(c)
    BY <2>2, <2>5, <2>7
  <2> QED
    BY <2>6, <2>7
<1>10. YoungestLast'
  <2>1. fails' = fails \/ fails' = << >>
    BY DEF RequestArrives, CreateCode, MailCode, CountFails, ClearFails, Breaks,
           CheckLockout, Server, NoFails
  <2> QED
    BY <2>1 DEF SignInInv, YoungestLast
<1>8. cut => cut'
  BY DEF RequestArrives, CreateCode, MailCode, CountFails, ClearFails, Breaks, CheckLockout,
         Server
<1>9. At(c, "request", "invalidated") => cut'
  BY DEF RequestArrives, CreateCode, MailCode, CountFails, ClearFails, Breaks, CheckLockout,
         At
<1>3. MailCode(c) => call[c].found \in DOMAIN codes
  BY DEF MailCode, At, SignInInv, Remembered
<1>4. inbox' \subseteq DOMAIN codes'
  BY <1>0, <1>2, <1>3 DEF TypeOK
<1>5. CASE \E answer : Answer(c, answer)
  <2>1. /\ call' \in [Calls -> CallStates] /\ call'[c] = Idle
        /\ \A d \in Calls \ {c} : /\ call'[d].pc = call[d].pc /\ call'[d].kind = call[d].kind
                                  /\ call'[d].found = call[d].found
        /\ dialog' \in [Tabs -> Dialogs]
    BY <1>0, <1>5, AnswerStep
  <2>2. TypeOK'
    BY <1>0, <1>2, <1>4, <2>1 DEF TypeOK, Dialogs
  <2> QED
    BY <1>0, <1>2, <1>8, <1>9, <1>10, <2>1, <2>2, IdleType, Quietly DEF Guessing, At
<1>6. ASSUME NEW pc \in {"admitted", "checked"}, Goto(c, pc), call[c].kind = "request",
             UNCHANGED Server, call[c].pc \in {"sent", "admitted"}
      PROVE  SignInInv'
  <2>1. /\ call' \in [Calls -> CallStates] /\ call'[c].pc = pc /\ call'[c].kind = call[c].kind
        /\ \A d \in Calls \ {c} : call'[d] = call[d]
        /\ dialog' = dialog
    BY <1>0, <1>6, GotoStep
  <2>2. TypeOK'
    BY <1>0, <1>6, <2>1 DEF TypeOK, Server
  <2>3. UNCHANGED <<fails, codes, cut>>
    BY <1>6 DEF Server
  <2> QED
    BY <1>0, <1>6, <1>10, <2>1, <2>2, <2>3, Limits, Quietly DEF Guessing, At
<1>7. Goto(c, "admitted") /\ call[c].kind = "request" /\ UNCHANGED Server /\ ~(\E answer : Answer(c, answer))
        => call[c].pc \in {"sent", "admitted"}
  BY DEF RequestArrives, CreateCode, MailCode, CountFails, ClearFails, Breaks, CheckLockout, At
<1> QED
  BY <1>1, <1>5, <1>6, <1>7

-----------------------------------------------------------------------------
(* A guess passes the check only under the limit. *)
LEMMA VerifyArrivesKeeps ==
  ASSUME SignInInv, NEW c \in Calls, VerifyArrives(c), ~Locked
  PROVE  SignInInv'
<1>1. /\ TypeOK /\ Goto(c, "checked") /\ call[c].kind = "verify" /\ UNCHANGED Server
      /\ call[c].pc = "sent"
  BY DEF SignInInv, VerifyArrives, CheckLockout, At
<1>2. /\ call' \in [Calls -> CallStates] /\ call'[c].pc = "checked"
      /\ call'[c].kind = call[c].kind
      /\ \A d \in Calls \ {c} : call'[d] = call[d]
      /\ dialog' = dialog
  BY <1>1, GotoStep
<1>3. TypeOK' /\ UNCHANGED <<fails, codes, cut>>
  BY <1>1, <1>2 DEF TypeOK, Server
<1>4. Remembered'
  BY <1>2, <1>3 DEF SignInInv, Remembered
<1>5. LockoutBounded'
  <2>1. Cardinality(Guessing') <= Cardinality(Calls) /\ Cardinality(Guessing') \in Nat
    <3>1. Guessing' \in SUBSET Calls
      BY DEF Guessing
    <3> QED
      BY <3>1, Fewer
  <2>2. Len(fails) \in Nat /\ Len(fails) < FailLimit
    BY <1>1, Limits DEF Locked, Recent, TypeOK
  <2>3. Len(fails') + Cardinality(Guessing') <= FailLimit - 1 + Cardinality(Calls)
    BY <1>3, <2>1, <2>2, Limits
  <2> QED
    BY <2>3 DEF LockoutBounded, Guessing, Recent
<1>6. TakersBounded'
  <2>1. \A i \in DOMAIN codes : Taken(i)' = Taken(i) /\ Rivals(i)' = Rivals(i)
    BY <1>1, <1>2, <1>3 DEF Taken, Rivals
  <2> QED
    BY <1>3, <2>1 DEF SignInInv, TakersBounded
<1>7. NewestCodeWorks'
  BY <1>1, <1>2, <1>3 DEF SignInInv, NewestCodeWorks, At
<1> QED
  BY <1>3, <1>4, <1>5, <1>6, <1>7 DEF SignInInv, YoungestLast

LEMMA VerifyRefusedKeeps ==
  ASSUME SignInInv, NEW c \in Calls, VerifyArrives(c), Locked
  PROVE  SignInInv'
<1>1. /\ TypeOK /\ Answer(c, "locked") /\ UNCHANGED Server /\ Len(fails) \in Nat
      /\ call[c].kind = "verify"
  BY Limits DEF SignInInv, VerifyArrives, CheckLockout, At, TypeOK
<1>2. /\ call' \in [Calls -> CallStates] /\ call'[c] = Idle
      /\ \A d \in Calls \ {c} : /\ call'[d].pc = call[d].pc /\ call'[d].kind = call[d].kind
                                /\ call'[d].found = call[d].found
      /\ dialog' \in [Tabs -> Dialogs]
  BY <1>1, AnswerStep
<1>3. TypeOK' /\ UNCHANGED <<fails, codes, cut>>
  BY <1>1, <1>2 DEF TypeOK, Server, Dialogs
<1> QED
  BY <1>1, <1>2, <1>3, IdleType, Quietly DEF Guessing, At, SignInInv, YoungestLast

(* A failure is counted where its guess was. *)
LEMMA RecordFailKeeps ==
  ASSUME SignInInv, NEW c \in Calls, RecordFail(c)
  PROVE  SignInInv'
<1>1. /\ TypeOK /\ Goto(c, "recorded") /\ UNCHANGED <<codes, inbox, cut>>
      /\ call[c].kind = "verify" /\ call[c].pc = "missed" /\ fails' = Append(fails, 0)
  BY DEF SignInInv, RecordFail, At
<1>2. /\ call' \in [Calls -> CallStates] /\ call'[c].pc = "recorded"
      /\ call'[c].kind = call[c].kind
      /\ \A d \in Calls \ {c} : call'[d] = call[d]
      /\ dialog' = dialog
  BY <1>1, GotoStep
<1>3. TypeOK' /\ Len(fails') = Len(fails) + 1 /\ Len(fails) \in Nat
  <2>1. 0 \in Ages
    BY Limits DEF Ages
  <2>2. fails \in Seq(Ages)
    BY <1>1 DEF TypeOK
  <2>3. fails' \in Seq(Ages) /\ Len(fails') = Len(fails) + 1 /\ Len(fails) \in Nat
    BY <1>1, <2>1, <2>2
  <2> QED
    BY <1>1, <1>2, <2>3 DEF TypeOK
<1>8. YoungestLast'
  <2>1. /\ fails \in Seq(Ages) /\ DOMAIN fails = 1..Len(fails) /\ Len(fails) \in Nat
        /\ \A k \in DOMAIN fails : fails[k] \in Ages
    BY <1>1, ElementsAre DEF TypeOK
  <2>2. /\ DOMAIN fails' = 1..Len(fails) + 1 /\ fails'[Len(fails) + 1] = 0
        /\ \A k \in DOMAIN fails : fails'[k] = fails[k]
    BY <1>1, <2>1
  <2> SUFFICES ASSUME NEW k \in DOMAIN fails', NEW l \in DOMAIN fails', k <= l
               PROVE  fails'[l] <= fails'[k]
    BY DEF YoungestLast
  <2>3. CASE l = Len(fails) + 1
    <3>1. fails'[k] \in Nat
      BY <2>1, <2>2, Limits DEF Ages
    <3> QED
      BY <2>2, <2>3, <3>1
  <2>4. CASE l # Len(fails) + 1
    <3>1. k \in DOMAIN fails /\ l \in DOMAIN fails
      BY <2>1, <2>2, <2>4
    <3> QED
      BY <2>2, <3>1 DEF SignInInv, YoungestLast
  <2> QED
    BY <2>3, <2>4
<1>4. Remembered'
  BY <1>1, <1>2 DEF SignInInv, Remembered
<1>5. LockoutBounded'
  <2>1. Guessing' = Guessing \ {c} /\ c \in Guessing
    BY <1>1, <1>2 DEF Guessing
  <2>2. Cardinality(Guessing') = Cardinality(Guessing) - 1 /\ Cardinality(Guessing) \in Nat
    <3>1. Guessing \in SUBSET Calls
      BY DEF Guessing
    <3> QED
      BY <2>1, <3>1, OneFewer, Fewer
  <2>3. Len(fails) + Cardinality(Guessing) <= FailLimit - 1 + Cardinality(Calls)
    BY DEF SignInInv, LockoutBounded, Guessing, Recent
  <2>4. Len(fails') + Cardinality(Guessing') <= FailLimit - 1 + Cardinality(Calls)
    BY <1>3, <2>2, <2>3, Limits
  <2> QED
    BY <2>4 DEF LockoutBounded, Guessing, Recent
<1>6. TakersBounded'
  <2>1. \A i \in DOMAIN codes : Taken(i)' = Taken(i) /\ Rivals(i)' = Rivals(i)
    BY <1>1, <1>2 DEF Taken, Rivals
  <2> QED
    BY <1>1, <2>1 DEF SignInInv, TakersBounded
<1>7. NewestCodeWorks'
  BY <1>1, <1>2 DEF SignInInv, NewestCodeWorks, At
<1> QED
  BY <1>3, <1>4, <1>5, <1>6, <1>7, <1>8 DEF SignInInv

(* The codes are invalidated; the request that did it has yet to store its own. *)
LEMMA InvalidateKeeps ==
  ASSUME SignInInv, NEW c \in Calls, InvalidateCodes(c)
  PROVE  SignInInv'
<1>1. /\ TypeOK /\ Goto(c, "invalidated") /\ UNCHANGED <<fails, inbox, cut>>
      /\ call[c].kind = "request" /\ call[c].pc = "checked" /\ Len(fails) \in Nat
      /\ codes' = [i \in DOMAIN codes |->
                    IF Unused(i) THEN [codes[i] EXCEPT !.used = Replaced] ELSE codes[i]]
  BY DEF SignInInv, InvalidateCodes, At, TypeOK
<1>2. /\ call' \in [Calls -> CallStates] /\ call'[c].pc = "invalidated"
      /\ call'[c].kind = call[c].kind
      /\ \A d \in Calls \ {c} : call'[d] = call[d]
      /\ dialog' = dialog
  BY <1>1, GotoStep
<1>3. /\ codes \in Seq(CodeRows) /\ DOMAIN codes = 1..Len(codes) /\ Len(codes) \in Nat
      /\ \A i \in DOMAIN codes : codes[i] \in CodeRows
  BY <1>1, CodesAre
<1>4. /\ DOMAIN codes' = DOMAIN codes
      /\ \A i \in DOMAIN codes :
           /\ codes'[i] \in CodeRows
           /\ codes'[i].used = (IF codes[i].used = 0 THEN Replaced ELSE codes[i].used)
           /\ codes'[i].rivals = codes[i].rivals
  BY <1>1, <1>3 DEF Unused, Nobody, CodeRows
<1>5. codes' \in Seq(CodeRows)
  BY <1>3, <1>4, <1>1
<1>6. TypeOK'
  BY <1>1, <1>2, <1>4, <1>5 DEF TypeOK, CodeRows
<1>7. Remembered'
  BY <1>1, <1>2, <1>4 DEF SignInInv, Remembered
<1>8. LockoutBounded'
  <2>1. Guessing' = Guessing
    BY <1>1, <1>2 DEF Guessing
  <2> QED
    BY <1>1, <2>1 DEF SignInInv, LockoutBounded, Guessing, Recent
<1>9. TakersBounded'
  <2>1. \A i \in DOMAIN codes : Taken(i)' = Taken(i) /\ Rivals(i)' = Rivals(i)
    BY <1>1, <1>2, <1>4 DEF Taken, Rivals, Replaced
  <2> QED
    BY <1>4, <2>1 DEF SignInInv, TakersBounded
<1>10. NewestCodeWorks'
  BY <1>1, <1>2 DEF NewestCodeWorks, At
<1> QED
  BY <1>1, <1>6, <1>7, <1>8, <1>9, <1>10 DEF SignInInv, YoungestLast

(* A new code is nobody's yet, and it is the newest. *)
LEMMA InsertKeeps ==
  ASSUME SignInInv, NEW c \in Calls, InsertCode(c)
  PROVE  SignInInv'
<1> DEFINE row == [age |-> 0, used |-> Nobody, rivals |-> 0]
<1>1. /\ TypeOK /\ UNCHANGED <<dialog, fails, inbox>>
      /\ call[c].kind = "request" /\ call[c].pc = "invalidated"
      /\ call \in [Calls -> CallStates] /\ call[c] \in CallStates
      /\ codes' = Append(codes, row) /\ cut' = FALSE
  BY DEF SignInInv, InsertCode, At, TypeOK
<1>2. /\ codes \in Seq(CodeRows) /\ DOMAIN codes = 1..Len(codes) /\ Len(codes) \in Nat
  BY <1>1, CodesAre
<1>3. row \in CodeRows /\ row.used = 0
  BY Limits DEF CodeRows, Nobody
<1> HIDE DEF row
<1>4. /\ codes' \in Seq(CodeRows) /\ DOMAIN codes' = 1..Len(codes) + 1
      /\ Len(codes') = Len(codes) + 1
      /\ codes'[Len(codes) + 1] = row /\ \A i \in DOMAIN codes : codes'[i] = codes[i]
  BY <1>1, <1>2, <1>3
<1>12. PICK n \in Nat : n = Len(codes) + 1
  BY <1>2
<1>13. call' = [call EXCEPT ![c].pc = "stored", ![c].found = n]
  BY <1>12 DEF InsertCode
<1> DEFINE x == [call[c] EXCEPT !.pc = "stored", !.found = n]
<1>5. /\ x \in CallStates /\ x.pc = "stored" /\ x.found = Len(codes) + 1
      /\ call' = [call EXCEPT ![c] = x]
  <2>1. x \in CallStates /\ x.pc = "stored" /\ x.found = n
    BY <1>1 DEF CallStates
  <2>2. call' = [call EXCEPT ![c] = x]
    BY <1>1, <1>13
  <2> QED
    BY <1>12, <2>1, <2>2
<1> HIDE DEF x
<1>6. /\ call' \in [Calls -> CallStates] /\ call'[c] = x
      /\ \A d \in Calls \ {c} : call'[d] = call[d]
  BY <1>1, <1>5
<1>7. TypeOK'
  <2>1. inbox' \subseteq DOMAIN codes'
    BY <1>1, <1>2, <1>4 DEF TypeOK
  <2> QED
    BY <1>1, <1>4, <1>6, <2>1 DEF TypeOK, CodeRows
<1>8. Remembered'
  BY <1>2, <1>4, <1>5, <1>6 DEF SignInInv, Remembered
<1>9. LockoutBounded'
  <2>1. Guessing' = Guessing
    BY <1>1, <1>5, <1>6 DEF Guessing
  <2> QED
    BY <1>1, <2>1 DEF SignInInv, LockoutBounded, Guessing, Recent
<1>10. TakersBounded'
  <2> SUFFICES ASSUME NEW i \in DOMAIN codes', Taken(i)' # 0
               PROVE  Taken(i)' + Cardinality(Rivals(i)') <= codes'[i].rivals
    BY DEF TakersBounded
  <2>1. CASE i \in DOMAIN codes
    <3>1. Taken(i)' = Taken(i) /\ Rivals(i)' = Rivals(i)
      BY <1>1, <1>4, <1>5, <1>6, <2>1 DEF Taken, Rivals
    <3> QED
      BY <1>4, <2>1, <3>1 DEF SignInInv, TakersBounded
  <2>2. CASE i \notin DOMAIN codes
    BY <1>2, <1>3, <1>4, <2>2 DEF Taken, Replaced
  <2> QED
    BY <2>1, <2>2
<1>11. NewestCodeWorks'
  BY <1>2, <1>3, <1>4 DEF NewestCodeWorks, Replaced
<1> QED
  BY <1>1, <1>7, <1>8, <1>9, <1>10, <1>11 DEF SignInInv, YoungestLast

(* A guess meets a code that is unused, or no code. *)
LEMMA SelectKeeps ==
  ASSUME SignInInv, NEW c \in Calls, SelectCode(c)
  PROVE  SignInInv'
<1>1. /\ TypeOK /\ UNCHANGED <<dialog, fails, codes, inbox, cut>>
      /\ call[c].kind = "verify" /\ call[c].pc = "checked" /\ Len(fails) \in Nat
      /\ call \in [Calls -> CallStates] /\ call[c] \in CallStates
  BY DEF SignInInv, SelectCode, At, TypeOK, Server
<1>2. DOMAIN codes = 1..Len(codes) /\ Len(codes) \in Nat
  BY <1>1, CodesAre
<1>3. CASE call' = [call EXCEPT ![c].pc = "missed", ![c].guess = 0]
  <2> DEFINE x == [call[c] EXCEPT !.pc = "missed", !.guess = 0]
  <2>1. x \in CallStates /\ x.pc = "missed" /\ x.kind = "verify" /\ call' = [call EXCEPT ![c] = x]
    BY <1>1, <1>3 DEF CallStates
  <2> HIDE DEF x
  <2>2. /\ call' \in [Calls -> CallStates] /\ call'[c] = x
        /\ \A d \in Calls \ {c} : call'[d] = call[d]
    BY <1>1, <2>1
  <2>3. TypeOK'
    BY <1>1, <2>2 DEF TypeOK
  <2> QED
    BY <1>1, <2>1, <2>2, <2>3, Quietly DEF Guessing, At, SignInInv, YoungestLast
<1>4. ASSUME NEW i \in DOMAIN codes, Unused(i),
             call' = [call EXCEPT ![c].pc = "matched", ![c].guess = 0, ![c].found = i]
      PROVE  SignInInv'
  <2> DEFINE x == [call[c] EXCEPT !.pc = "matched", !.guess = 0, !.found = i]
  <2>1. /\ x \in CallStates /\ x.pc = "matched" /\ x.found = i /\ x.kind = "verify"
        /\ call' = [call EXCEPT ![c] = x]
    <3>1. i \in Nat
      BY <1>2
    <3>2. x \in CallStates /\ x.pc = "matched" /\ x.found = i /\ x.kind = "verify"
      BY <1>1, <3>1 DEF CallStates
    <3>3. call' = [call EXCEPT ![c] = x]
      BY <1>1, <1>4
    <3> QED
      BY <3>2, <3>3
  <2> HIDE DEF x
  <2>2. /\ call' \in [Calls -> CallStates] /\ call'[c] = x
        /\ \A d \in Calls \ {c} : call'[d] = call[d]
    BY <1>1, <2>1
  <2>3. TypeOK'
    BY <1>1, <2>2 DEF TypeOK
  <2>4. Remembered'
    BY <1>1, <2>1, <2>2 DEF SignInInv, Remembered
  <2>5. LockoutBounded'
    <3>1. Guessing \in SUBSET Calls /\ Guessing' \in SUBSET Guessing
      BY <1>1, <2>1, <2>2 DEF Guessing
    <3>2. Cardinality(Guessing') <= Cardinality(Guessing)
          /\ Cardinality(Guessing) \in Nat /\ Cardinality(Guessing') \in Nat
      BY <3>1, Fewer
    <3>3. Len(fails) + Cardinality(Guessing) <= FailLimit - 1 + Cardinality(Calls)
      BY DEF SignInInv, LockoutBounded, Guessing, Recent
    <3>4. Len(fails') + Cardinality(Guessing') <= FailLimit - 1 + Cardinality(Calls)
      BY <1>1, <3>2, <3>3, Limits
    <3> QED
      BY <3>4 DEF LockoutBounded, Guessing, Recent
  <2>6. TakersBounded'
    <3> SUFFICES ASSUME NEW j \in DOMAIN codes, Taken(j)' # 0
                 PROVE  Taken(j)' + Cardinality(Rivals(j)') <= codes[j].rivals
      BY <1>1 DEF TakersBounded
    <3>1. Taken(j)' = Taken(j)
      BY <1>1 DEF Taken
    <3>2. CASE j # i
      <4>1. Rivals(j)' = Rivals(j)
        BY <1>1, <2>1, <2>2, <3>2 DEF Rivals
      <4> QED
        BY <3>1, <4>1 DEF SignInInv, TakersBounded
    <3>3. CASE j = i
      BY <1>4, <3>1, <3>3 DEF Taken, Unused, Nobody, Replaced
    <3> QED
      BY <3>2, <3>3
  <2>7. NewestCodeWorks'
    BY <1>1, <2>1, <2>2 DEF SignInInv, NewestCodeWorks, At
  <2> QED
    BY <1>1, <2>3, <2>4, <2>5, <2>6, <2>7 DEF SignInInv, YoungestLast
<1> QED
  BY <1>3, <1>4 DEF SelectCode, Matches

(* Marking a code is one taking more, and one taker less. *)
LEMMA MarkKeeps ==
  ASSUME SignInInv, NEW c \in Calls, MarkUsed(c)
  PROVE  SignInInv'
<1> DEFINE i == call[c].found
           n == Taken(i) + 1
           m == IF Taken(i) = 0 THEN Cardinality(Rivals(i)) ELSE codes[i].rivals
<1>1. /\ TypeOK /\ Goto(c, "marked") /\ UNCHANGED <<fails, inbox, cut>>
      /\ call[c].kind = "verify" /\ call[c].pc = "matched" /\ i \in DOMAIN codes
      /\ codes' = [codes EXCEPT ![i].used = n, ![i].rivals = m]
  BY DEF SignInInv, MarkUsed, At, Remembered
<1>2. /\ codes \in Seq(CodeRows) /\ DOMAIN codes = 1..Len(codes) /\ Len(codes) \in Nat
      /\ codes[i] \in CodeRows
  BY <1>1, CodesAre
<1>3. n = Taken(i) + 1 /\ n \in Nat \ {0} /\ Taken(i) \in Nat
  BY <1>2 DEF Taken, CodeRows
<1>14. Rivals(i) \in SUBSET Calls /\ c \in Rivals(i) /\ Cardinality(Rivals(i)) \in Nat
  <2>1. Rivals(i) \in SUBSET Calls /\ c \in Rivals(i)
    BY <1>1 DEF Rivals
  <2> QED
    BY <2>1, Fewer
<1>15. m \in Nat /\ (Taken(i) = 0 => m = Cardinality(Rivals(i)))
       /\ (Taken(i) # 0 => m = codes[i].rivals)
  BY <1>2, <1>14 DEF CodeRows
<1>4. /\ call' \in [Calls -> CallStates] /\ call'[c].pc = "marked"
      /\ call'[c].kind = call[c].kind
      /\ \A d \in Calls \ {c} : call'[d] = call[d]
      /\ dialog' = dialog
  BY <1>1, GotoStep
<1> DEFINE row == [codes[i] EXCEPT !.used = n, !.rivals = m]
<1> HIDE DEF n, m
<1>5. /\ row \in CodeRows /\ row.used = n /\ row.rivals = m
      /\ codes' = [codes EXCEPT ![i] = row]
  BY <1>1, <1>2, <1>3, <1>15 DEF CodeRows
<1>16. i \in DOMAIN codes
  BY <1>1
<1> HIDE DEF i, row
<1>6. /\ codes' \in Seq(CodeRows) /\ DOMAIN codes' = DOMAIN codes /\ Len(codes') = Len(codes)
      /\ codes'[i] = row /\ \A j \in DOMAIN codes \ {i} : codes'[j] = codes[j]
  BY <1>2, <1>5, <1>16
<1>7. TypeOK'
  BY <1>1, <1>4, <1>6 DEF TypeOK, CodeRows
<1>8. Remembered'
  BY <1>4, <1>6 DEF SignInInv, Remembered
<1>9. LockoutBounded'
  <2>1. Guessing' = Guessing
    BY <1>1, <1>4 DEF Guessing
  <2> QED
    BY <1>1, <2>1 DEF SignInInv, LockoutBounded, Guessing, Recent
<1>10. TakersBounded'
  <2> SUFFICES ASSUME NEW j \in DOMAIN codes, Taken(j)' # 0
               PROVE  Taken(j)' + Cardinality(Rivals(j)') <= codes'[j].rivals
    BY <1>6 DEF TakersBounded
  <2>1. Taken(j) # 0 => Taken(j) + Cardinality(Rivals(j)) <= codes[j].rivals
    BY DEF SignInInv, TakersBounded
  <2>2. CASE j # i
    <3>1. Taken(j)' = Taken(j) /\ Rivals(j)' = Rivals(j)
      BY <1>4, <1>6, <1>1, <2>2 DEF Taken, Rivals, i
    <3> QED
      BY <1>6, <2>1, <2>2, <3>1
  <2>3. CASE j = i
    <3>1. Taken(j)' = Taken(j) + 1 /\ codes'[j].rivals = m
      BY <1>3, <1>5, <1>6, <2>3 DEF Taken, Replaced
    <3>2. Rivals(j)' = Rivals(j) \ {c}
      BY <1>1, <1>4, <2>3 DEF Rivals, i
    <3>3. Cardinality(Rivals(j)') = Cardinality(Rivals(j)) - 1
      BY <1>14, <2>3, <3>2, OneFewer
    <3> QED
      BY <1>3, <1>14, <1>15, <2>1, <2>3, <3>1, <3>3
  <2> QED
    BY <2>2, <2>3
<1>11. NewestCodeWorks'
  <2> SUFFICES ASSUME codes' # << >>, codes'[Len(codes')].used = Replaced
               PROVE  (cut \/ \E d \in Calls : At(d, "request", "invalidated"))'
    BY DEF NewestCodeWorks
  <2>1. codes # << >> /\ Len(codes) \in DOMAIN codes
    BY <1>2, <1>6
  <2>2. codes[Len(codes)].used = Replaced
    BY <1>3, <1>5, <1>6, <2>1 DEF Replaced
  <2>3. cut \/ \E d \in Calls : At(d, "request", "invalidated")
    BY <2>1, <2>2 DEF SignInInv, NewestCodeWorks
  <2> QED
    BY <1>1, <1>4, <2>3 DEF At
<1> QED
  BY <1>1, <1>7, <1>8, <1>9, <1>10, <1>11 DEF SignInInv, YoungestLast

LEMMA TickKeepsAll ==
  ASSUME SignInInv, Tick
  PROVE  SignInInv'
<1>1. /\ TypeOK /\ UNCHANGED <<dialog, call, inbox, cut>>
      /\ fails' = [i \in 1 .. Staying |-> fails[Len(fails) - Staying + i] + 1]
      /\ codes' = [i \in DOMAIN codes |->
                    IF Unused(i) /\ codes[i].age < CodeLife
                    THEN [codes[i] EXCEPT !.age = @ + 1] ELSE codes[i]]
  BY DEF SignInInv, Tick
<1>2. /\ fails' \in Seq(Ages) /\ Len(fails') = Staying /\ Staying <= Len(fails)
  <2>1. PICK n \in 0..Len(fails) : n = Staying
    BY <1>1, StayingFewer DEF TypeOK
  <2>2. fails \in Seq(Ages) /\ Len(fails) \in Nat /\ DOMAIN fails = 1..Len(fails)
    BY <1>1 DEF TypeOK
  <2>3. \A i \in 1..n : fails[Len(fails) - n + i] + 1 \in Ages
    BY <1>1, <2>1, <2>2, StayingYoung DEF SignInInv
  <2>4. fails' = [i \in 1..n |-> fails[Len(fails) - n + i] + 1]
    BY <1>1, <2>1
  <2> QED
    BY <2>1, <2>2, <2>3, <2>4
<1>3. /\ codes' \in Seq(CodeRows) /\ DOMAIN codes' = DOMAIN codes
      /\ \A i \in DOMAIN codes :
           codes'[i].used = codes[i].used /\ codes'[i].rivals = codes[i].rivals
  <2>1. /\ codes \in Seq(CodeRows) /\ DOMAIN codes = 1..Len(codes) /\ Len(codes) \in Nat
        /\ \A i \in DOMAIN codes : codes[i] \in CodeRows
    BY <1>1, CodesAre
  <2>2. ASSUME NEW i \in DOMAIN codes
        PROVE  /\ codes'[i] \in CodeRows
               /\ codes'[i].used = codes[i].used /\ codes'[i].rivals = codes[i].rivals
    <3>1. codes[i] \in CodeRows
      BY <2>1
    <3>2. \/ codes'[i] = codes[i]
          \/ codes[i].age < CodeLife /\ codes'[i] = [codes[i] EXCEPT !.age = codes[i].age + 1]
      BY <1>1
    <3> QED
      BY <3>1, <3>2, Limits DEF CodeRows
  <2> QED
    BY <1>1, <2>1, <2>2
<1>4. TypeOK'
  BY <1>1, <1>2, <1>3 DEF TypeOK, CodeRows
<1>5. Len(fails') <= Len(fails)
  BY <1>1, <1>2 DEF TypeOK
<1>6. YoungestLast'
  <2>1. PICK n \in 0..Len(fails) : n = Staying
    BY <1>1, StayingFewer DEF TypeOK
  <2>2. /\ Len(fails) \in Nat /\ DOMAIN fails = 1..Len(fails)
        /\ \A k \in DOMAIN fails : fails[k] \in Ages
    BY <1>1, ElementsAre DEF TypeOK
  <2>3. fails' = [i \in 1..n |-> fails[Len(fails) - n + i] + 1]
    BY <1>1, <2>1
  <2> SUFFICES ASSUME NEW k \in 1..n, NEW l \in 1..n, k <= l
               PROVE  fails[Len(fails) - n + l] + 1 <= fails[Len(fails) - n + k] + 1
    BY <2>3 DEF YoungestLast
  <2>4. /\ Len(fails) - n + l \in DOMAIN fails /\ Len(fails) - n + k \in DOMAIN fails
        /\ Len(fails) - n + k <= Len(fails) - n + l
    BY <2>2
  <2>5. fails[Len(fails) - n + l] <= fails[Len(fails) - n + k]
    BY <2>4 DEF SignInInv, YoungestLast
  <2>6. fails[Len(fails) - n + l] \in Nat /\ fails[Len(fails) - n + k] \in Nat
    BY <2>2, <2>4, Limits DEF Ages
  <2> QED
    BY <2>5, <2>6
<1> QED
  BY <1>1, <1>3, <1>4, <1>5, <1>6, Quietly DEF Guessing, At

LEMMA SignInStep ==
  ASSUME SignInInv, [Next]_vars
  PROVE  SignInInv'
<1>1. CASE UNCHANGED vars
  <2>1. UNCHANGED <<dialog, call, fails, codes, inbox, cut>> /\ TypeOK /\ Len(fails) \in Nat
    BY <1>1 DEF vars, SignInInv, TypeOK
  <2>2. TypeOK'
    BY <2>1 DEF TypeOK
  <2> QED
    BY <2>1, <2>2, Quietly DEF Guessing, At, SignInInv, YoungestLast
<1>2. ASSUME NEW c \in Calls, Serve(c) \/ Breaks(c)
      PROVE  SignInInv'
  BY <1>2, LooksKeep, VerifyArrivesKeeps, VerifyRefusedKeeps, RecordFailKeeps, InvalidateKeeps,
     InsertKeeps, SelectKeeps, MarkKeeps DEF Serve
<1>3. ASSUME NEW t \in Tabs,
             \/ Open(t) \/ Close(t) \/ SwitchMode(t) \/ ChangeAddress(t) \/ SubmitPassword(t)
             \/ \E c \in Calls : SubmitRequest(t, c) \/ SubmitVerify(t, c)
      PROVE  SignInInv'
  BY <1>3, DialogKeeps
<1> QED
  BY <1>1, <1>2, <1>3, TickKeepsAll DEF Next

(* The inductive invariant: what races on the server add to the lock and to a *)
(* code is bounded by how many calls there can be.                            *)
THEOREM SignInInvariance == Spec => []SignInInv
<1>1. Init => SignInInv
  <2> SUFFICES ASSUME Init PROVE SignInInv
    OBVIOUS
  <2>1. /\ dialog = [t \in Tabs |-> Closed] /\ call = [c \in Calls |-> Idle]
        /\ fails = << >> /\ codes = << >> /\ inbox = {}
    BY DEF Init, NoFails
  <2>2. TypeOK
    <3>1. dialog \in [Tabs -> Dialogs] /\ call \in [Calls -> CallStates]
      BY <2>1, FormTypes, IdleType
    <3> QED
      BY <2>1, <3>1 DEF TypeOK, Dialogs
  <2>3. YoungestLast /\ Remembered /\ TakersBounded /\ NewestCodeWorks
    BY <2>1, IdleType DEF YoungestLast, Remembered, TakersBounded, NewestCodeWorks
  <2>4. LockoutBounded
    <3>1. {c \in Calls : call[c].kind = "verify" /\ call[c].pc \in {"checked", "missed"}} = {}
      BY <2>1, IdleType
    <3>2. Recent = 0
      BY <2>1 DEF Recent
    <3>3. 0 + Cardinality({}) <= FailLimit - 1 + Cardinality(Calls)
      BY Limits, FS_EmptySet
    <3> QED
      BY <3>1, <3>2, <3>3 DEF LockoutBounded
  <2> QED
    BY <2>2, <2>3, <2>4 DEF SignInInv
<1> QED
  BY <1>1, SignInStep, PTL DEF Spec

(* The dialogs, the calls and the rows of SignIn are well formed. *)
THEOREM SignInTyped == Spec => []TypeOK
<1>1. SignInInv => TypeOK
  BY DEF SignInInv
<1> QED
  BY <1>1, SignInInvariance, PTL

(* Guesses that run at once overshoot the lock by no more than the calls there *)
(* can be (verify_and_consume_otp, auth/db.rs:451-512).                        *)
THEOREM LockoutHolds == Spec => []LockoutBounded
<1>1. SignInInv => LockoutBounded
  BY DEF SignInInv
<1> QED
  BY <1>1, SignInInvariance, PTL

(* The newest code is invalidated only by a request that is half way through, *)
(* or stopped there (create_otp_code, auth/db.rs:408-446).                    *)
THEOREM NewestIsValid == Spec => []NewestCodeWorks
<1>1. SignInInv => NewestCodeWorks
  BY DEF SignInInv
<1> QED
  BY <1>1, SignInInvariance, PTL

(* Whoever takes a one-time code had read it as unused before the first of *)
(* them marked it (verify_and_consume_otp, auth/db.rs:467-517).             *)
THEOREM RivalsOnly == Spec => []OnlyRivalsShareACode
<1>1. SignInInv => OnlyRivalsShareACode
  <2> SUFFICES ASSUME SignInInv, NEW i \in DOMAIN codes
               PROVE  codes[i].used <= codes[i].rivals
    BY DEF OnlyRivalsShareACode
  <2>1. codes[i].used \in Nat \union {Replaced} /\ codes[i].rivals \in Nat
    BY CodesAre DEF SignInInv
  <2>2. CASE Taken(i) = 0
    BY <2>1, <2>2 DEF Taken, Replaced
  <2>3. CASE Taken(i) # 0
    <3>1. Taken(i) + Cardinality(Rivals(i)) <= codes[i].rivals
      BY <2>3 DEF SignInInv, TakersBounded
    <3>2. Rivals(i) \in SUBSET Calls
      BY DEF Rivals
    <3>3. Cardinality(Rivals(i)) \in Nat
      BY <3>2, Fewer
    <3> QED
      BY <2>1, <2>3, <3>1, <3>3 DEF Taken, Replaced
  <2> QED
    BY <2>2, <2>3
<1> QED
  BY <1>1, SignInInvariance, PTL
=============================================================================

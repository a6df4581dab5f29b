--------------------------- MODULE Outlook_proofs ----------------------------
(***************************************************************************)
(* Proofs about Outlook: whatever the number of pollers, the order of the  *)
(* messages and the crashes, the reservation shows the newest message that *)
(* was processed, and no message leaves the inbox in silence.              *)
(***************************************************************************)
EXTENDS Outlook, SequenceTheorems, TLAPS

Working == {"import", "insert", "log", "mark"}

RunStates == [pc : {"idle", "list", "next"} \cup Working, queue : Seq(Messages),
              attempts : Nat, ok : BOOLEAN]

Types ==
    /\ inbox \in Seq(Messages) /\ sent \subseteq Messages
    /\ row \in Messages \cup {None}
    /\ log \in [Messages -> [result : {None, "done", "error"}, attempts : Nat]]
    /\ run \in [Runs -> RunStates]
    /\ settled \subseteq Messages
    /\ failed \in [Messages -> 0..MaxAttempts]

\* Before there is a reservation, every message was ignored.
NothingProcessed ==
    row = None => \A m \in settled \ unknown : Method[m] = "other"

\* A message is settled, has failed at least k times or reached the limit.
Accounted(m, k) == m \in settled \/ k <= failed[m] \/ failed[m] = MaxAttempts

\* The log counts no attempt that did not fail.
LogAccounted == \A m \in Messages : Accounted(m, log[m].attempts)

\* What is true of a run: only an invite that found no reservation is about to
\* be inserted, and an attempt that is over has settled the message or failed.
RunOK(x) ==
    /\ x.pc \in Working => x.queue # << >>
    /\ x.pc = "insert" =>
          Method[Head(x.queue)] = "request" /\ ~Cancels(Head(x.queue))
    /\ x.pc \in {"import", "insert"} =>
          Accounted(Head(x.queue), x.attempts - 1)
    /\ x.pc \in {"log", "mark"} =>
          /\ x.ok => Head(x.queue) \in settled
          /\ Accounted(Head(x.queue), x.attempts)

RunsOK == \A r \in Runs : RunOK(run[r])

Inv == /\ Types /\ NothingProcessed /\ ShowsNewest
       /\ LogAccounted /\ RunsOK /\ NoSilentLoss
-----------------------------------------------------------------------------
LEMMA ToSetIs ==
  ASSUME NEW s \in Seq(Messages)
  PROVE  ToSet(s) = {s[i] : i \in 1..Len(s)} /\ ToSet(s) \subseteq Messages
BY DEF ToSet

(* Archiving one message leaves every other in the mailbox. *)
LEMMA WithoutIs ==
  ASSUME NEW s \in Seq(Messages), NEW m
  PROVE  /\ Without(s, m) \in Seq(Messages)
         /\ \A n \in ToSet(s) : n # m => n \in ToSet(Without(s, m))
<1>1. CASE m \notin ToSet(s)
  BY <1>1 DEF Without
<1>2. CASE m \in ToSet(s)
  <2>1. PICK k \in 1..Len(s) : s[k] = m /\ Without(s, m) = RemoveAt(s, k)
    <3>1. \E i \in DOMAIN s : s[i] = m
      BY <1>2 DEF ToSet
    <3> DEFINE k == CHOOSE i \in DOMAIN s : s[i] = m
    <3>2. k \in 1..Len(s) /\ s[k] = m
      BY <3>1
    <3>3. Without(s, m) = RemoveAt(s, k)
      BY <1>2 DEF Without
    <3> HIDE DEF k
    <3> QED
      BY <3>2, <3>3
  <2> DEFINE a == SubSeq(s, 1, k - 1)
             b == SubSeq(s, k + 1, Len(s))
  <2>2. /\ a \in Seq(Messages) /\ Len(a) = k - 1
        /\ \A i \in 1..(k - 1) : a[i] = s[i]
    <3>1. \A i \in 1..(k - 1) : s[i] \in Messages
      OBVIOUS
    <3>2. k - 1 \in Int /\ k - 1 - 1 + 1 = k - 1 /\ (1 <= k - 1 \/ k - 1 = 0)
      OBVIOUS
    <3>3. /\ a \in Seq(Messages)
          /\ Len(a) = IF 1 <= k - 1 THEN (k - 1) - 1 + 1 ELSE 0
          /\ \A i \in 1..((k - 1) - 1 + 1) : a[i] = s[1 + i - 1]
      BY <3>1, <3>2, SubSeqProperties
    <3> HIDE DEF a
    <3> QED
      BY <3>2, <3>3
  <2>3. /\ b \in Seq(Messages) /\ Len(b) = Len(s) - k
        /\ \A i \in 1..(Len(s) - k) : b[i] = s[k + i]
    <3>1. \A i \in (k + 1)..Len(s) : s[i] \in Messages
      OBVIOUS
    <3>2. k + 1 \in Int /\ Len(s) \in Int
      OBVIOUS
    <3>3. /\ b \in Seq(Messages)
          /\ Len(b) = IF k + 1 <= Len(s) THEN Len(s) - (k + 1) + 1 ELSE 0
          /\ \A i \in 1..(Len(s) - (k + 1) + 1) : b[i] = s[(k + 1) + i - 1]
      BY <3>1, <3>2, SubSeqProperties
    <3> HIDE DEF b
    <3> QED
      BY <3>3
  <2>4. Without(s, m) = a \o b
    BY <2>1 DEF RemoveAt
  <2> HIDE DEF a, b
  <2>5. /\ a \o b \in Seq(Messages) /\ Len(a \o b) = Len(a) + Len(b)
        /\ \A i \in 1..(Len(a) + Len(b)) :
              (a \o b)[i] = IF i <= Len(a) THEN a[i] ELSE b[i - Len(a)]
    BY <2>2, <2>3, ConcatProperties
  <2>6. ASSUME NEW n \in ToSet(s), n # m
        PROVE  n \in ToSet(a \o b)
    <3>1. PICK i \in 1..Len(s) : s[i] = n
      BY <2>6, ToSetIs
    <3>2. i < k \/ k < i
      BY <3>1, <2>1, <2>6
    <3>3. CASE i < k
      <4>1. i \in 1..Len(a \o b) /\ (a \o b)[i] = n
        BY <3>1, <3>3, <2>2, <2>3, <2>5
      <4> QED
        BY <4>1, <2>5, ToSetIs
    <3>4. CASE k < i
      <4>1. i - 1 \in 1..Len(a \o b) /\ (a \o b)[i - 1] = n
        <5>1. i - 1 \in 1..Len(a \o b) /\ Len(a) < i - 1
          BY <3>4, <2>2, <2>3, <2>5
        <5>2. (a \o b)[i - 1] = b[i - k]
          BY <5>1, <2>2, <2>3, <2>5
        <5>3. i - k \in 1..(Len(s) - k) /\ k + (i - k) = i
          BY <3>4
        <5> QED
          BY <5>1, <5>2, <5>3, <3>1, <2>3
      <4> QED
        BY <4>1, <2>5, ToSetIs
    <3> QED
      BY <3>2, <3>3, <3>4
  <2> QED
    BY <2>4, <2>5, <2>6
<1> QED
  BY <1>1, <1>2

-----------------------------------------------------------------------------
\* What has happened to messages is not undone.
Grows == /\ settled \subseteq settled'
         /\ \A m \in Messages : failed[m] <= failed'[m]

LEMMA AccountedStays ==
  ASSUME Types, Types', Grows
  PROVE  \A m \in Messages, k \in Int :
            m \in settled \/ k <= failed[m] \/ failed[m] = MaxAttempts =>
              m \in settled' \/ k <= failed'[m] \/ failed'[m] = MaxAttempts
<1> SUFFICES ASSUME NEW m \in Messages, NEW k \in Int,
                    m \in settled \/ k <= failed[m] \/ failed[m] = MaxAttempts
             PROVE  m \in settled' \/ k <= failed'[m] \/ failed'[m] = MaxAttempts
  OBVIOUS
<1>1. /\ failed[m] \in 0..MaxAttempts /\ failed'[m] \in 0..MaxAttempts
      /\ failed[m] <= failed'[m] /\ settled \subseteq settled'
  BY DEF Types, Grows
<1> QED
  BY <1>1, OutlookAssumption

(* A step of one run leaves what is true of the other runs. *)
LEMMA RunStep ==
  ASSUME Types, Types', RunsOK, Grows, NEW r \in Runs,
         \A q \in Runs \ {r} : run'[q] = run[q],
         RunOK(run[r])'
  PROVE  RunsOK'
<1> SUFFICES ASSUME NEW q \in Runs, q # r
             PROVE  RunOK(run[q])'
  BY DEF RunsOK
<1>1. run'[q] = run[q] /\ RunOK(run[q]) /\ run[q] \in RunStates
  BY DEF RunsOK, Types
<1>2. run[q].pc \in Working =>
        Head(run[q].queue) \in Messages
  BY <1>1, HeadTailProperties DEF RunOK, RunStates
<1>3. run[q].attempts \in Int /\ run[q].attempts - 1 \in Int
  BY <1>1 DEF RunStates
<1>4. settled \subseteq settled'
  BY DEF Grows
<1> QED
  BY <1>1, <1>2, <1>3, <1>4, AccountedStays DEF RunOK, Accounted, Working, Cancels

(* What is true of the log and of the lost messages stays true. *)
LEMMA LogStep ==
  ASSUME Types, Types', LogAccounted, Grows, log' = log
  PROVE  LogAccounted'
<1>1. \A m \in Messages : log[m].attempts \in Int
  BY DEF Types
<1> QED
  BY <1>1, AccountedStays DEF LogAccounted, Accounted

LEMMA LossStep ==
  ASSUME Types, Types', NoSilentLoss, Grows, sent' = sent,
         ToSet(inbox) \subseteq ToSet(inbox')
  PROVE  NoSilentLoss'
<1>1. \A m \in Messages : failed[m] = MaxAttempts => failed'[m] = MaxAttempts
  BY OutlookAssumption DEF Types, Grows
<1> QED
  BY <1>1 DEF NoSilentLoss, Types, Grows

(* A step of a run that leaves messages, log and reservation alone. *)
LEMMA QuietStep ==
  ASSUME Inv, NEW r \in Runs, NEW x \in RunStates,
         run' = [run EXCEPT ![r] = x], RunOK(x),
         UNCHANGED <<mailbox, event, log>>
  PROVE  Inv'
<1> USE DEF mailbox, event
<1>1. Types' /\ run'[r] = x /\ \A q \in Runs \ {r} : run'[q] = run[q]
  BY DEF Inv, Types
<1>2. Grows
  <2>1. \A m \in Messages : failed[m] \in Int
    BY DEF Inv, Types
  <2> QED
    BY <2>1 DEF Grows
<1>3. RunOK(run[r])'
  BY <1>1 DEF RunOK, Accounted, Cancels
<1>4. RunsOK'
  BY <1>1, <1>2, <1>3, RunStep DEF Inv
<1>5. LogAccounted' /\ NoSilentLoss'
  BY <1>1, <1>2, LogStep, LossStep DEF Inv
<1>6. NothingProcessed' /\ ShowsNewest'
  BY DEF Inv, NothingProcessed, ShowsNewest, Supersedes, Cancels
<1> QED
  BY <1>1, <1>4, <1>5, <1>6 DEF Inv

(* What a run at work on a message knows. *)
LEMMA AtWork ==
  ASSUME Inv, NEW r \in Runs, run[r].pc \in Working
  PROVE  /\ run[r] \in RunStates /\ RunOK(run[r]) /\ run[r].queue # << >>
         /\ Current(r) \in Messages /\ Current(r) = Head(run[r].queue)
         /\ Tail(run[r].queue) \in Seq(Messages)
<1>1. run[r] \in RunStates /\ RunOK(run[r])
  BY DEF Inv, Types, RunsOK
<1>2. run[r].queue \in Seq(Messages) /\ run[r].queue # << >>
  BY <1>1 DEF RunOK, RunStates
<1> QED
  BY <1>1, <1>2, HeadTailProperties DEF Current

LEMMA IdleType ==
  /\ Idle \in RunStates
  /\ \A q \in Seq(Messages) : /\ [Idle EXCEPT !.pc = "next", !.queue = q] \in RunStates
                              /\ [Idle EXCEPT !.pc = "next", !.queue = q].pc = "next"
<1>1. << >> \in Seq(Messages)
  BY EmptySeq
<1> QED
  BY <1>1 DEF Idle, RunStates, Working

-----------------------------------------------------------------------------
(* Steps between two messages, and the ends of a cycle. *)
LEMMA FreeStep ==
  ASSUME Inv, NEW r \in Runs, NEW x \in RunStates, x.pc \notin Working,
         run' = [run EXCEPT ![r] = x], UNCHANGED <<mailbox, event, log>>
  PROVE  Inv'
<1>1. RunOK(x)
  BY DEF RunOK, Working
<1> QED
  BY <1>1, QuietStep

LEMMA BetweenMessages ==
  ASSUME Inv, NEW r \in Runs,
         \/ Lock(r) \/ ListUnread(r) \/ PreviousAttempts(r) \/ MarkFails(r)
         \/ Finish(r) \/ CycleFails(r) \/ Crash(r) \/ Dropped(r)
  PROVE  Inv'
<1>0. /\ run \in [Runs -> RunStates] /\ run[r] \in RunStates
      /\ inbox \in Seq(Messages)
  BY DEF Inv, Types
<1>1. CASE Lock(r)
  <2> DEFINE x == [run[r] EXCEPT !.pc = "list"]
  <2>1. x \in RunStates /\ x.pc \notin Working /\ run' = [run EXCEPT ![r] = x]
    BY <1>0, <1>1 DEF Lock, Goto, RunStates, Working
  <2> HIDE DEF x
  <2> QED
    BY <1>1, <2>1, FreeStep DEF Lock
<1>2. CASE ListUnread(r)
  <2> DEFINE newest == SubSeq(inbox, Len(inbox) - Top + 1, Len(inbox))
             q == IF Len(inbox) <= Top THEN inbox ELSE newest
             x == [run[r] EXCEPT !.pc = "next", !.queue = q]
  <2>1. ASSUME ~(Len(inbox) <= Top)
        PROVE  newest \in Seq(Messages)
    <3>1. \A i \in (Len(inbox) - Top + 1)..Len(inbox) : inbox[i] \in Messages
      BY <1>0, <2>1, OutlookAssumption
    <3>2. Len(inbox) - Top + 1 \in Int /\ Len(inbox) \in Int
      BY <1>0, OutlookAssumption
    <3> QED
      BY <3>1, <3>2, SubSeqProperties
  <2>3. q \in Seq(Messages)
    BY <2>1, <1>0
  <2>4. run' = [run EXCEPT ![r] = x]
    BY <1>0, <1>2 DEF ListUnread
  <2> HIDE DEF q
  <2>5. x \in RunStates /\ x.pc \notin Working
    BY <1>0, <2>3 DEF RunStates, Working
  <2> HIDE DEF x
  <2> QED
    BY <1>2, <2>4, <2>5, FreeStep DEF ListUnread
<1>3. CASE PreviousAttempts(r)
  <2> DEFINE a == log[Current(r)].attempts + 1
             x == [run[r] EXCEPT !.pc = "import", !.attempts = a]
  <2>1. /\ run[r].queue # << >> /\ run[r].queue \in Seq(Messages)
        /\ Current(r) \in Messages /\ Current(r) = Head(run[r].queue)
    BY <1>0, <1>3, HeadTailProperties DEF PreviousAttempts, Current, RunStates
  <2>2. a \in Nat /\ Accounted(Current(r), a - 1)
    BY <2>1 DEF Inv, Types, LogAccounted, Accounted
  <2>3. run' = [run EXCEPT ![r] = x] /\ UNCHANGED <<mailbox, event, log>>
    BY <1>0, <1>3 DEF PreviousAttempts
  <2> HIDE DEF a
  <2>4. x \in RunStates
    BY <1>0, <2>2 DEF RunStates, Working
  <2>5. x.pc = "import" /\ x.queue = run[r].queue /\ x.attempts = a
    BY <1>0, <2>2 DEF RunStates
  <2>6. RunOK(x)
    BY <2>1, <2>2, <2>5 DEF RunOK
  <2> HIDE DEF x
  <2> QED
    BY <2>3, <2>4, <2>6, QuietStep
<1>4. CASE MarkFails(r)
  <2> DEFINE x == [Idle EXCEPT !.pc = "next", !.queue = Tail(run[r].queue)]
  <2>1. Tail(run[r].queue) \in Seq(Messages)
    BY <1>4, AtWork DEF MarkFails, At, Working
  <2>2. x \in RunStates /\ x.pc \notin Working
    BY <2>1, IdleType DEF Working
  <2>3. run' = [run EXCEPT ![r] = x]
    BY <1>4 DEF MarkFails, NextMessage
  <2> HIDE DEF x
  <2> QED
    BY <1>4, <2>2, <2>3, FreeStep DEF MarkFails
<1>5. CASE Finish(r) \/ CycleFails(r) \/ Crash(r) \/ Dropped(r)
  <2>1. /\ run' = [run EXCEPT ![r] = Idle]
        /\ UNCHANGED <<mailbox, event, log>>
    BY <1>5 DEF Finish, CycleFails, Crash, Dropped
  <2>2. Idle.pc \notin Working
    BY DEF Idle, Working
  <2> QED
    BY <2>1, <2>2, IdleType, FreeStep
<1> QED
  BY <1>1, <1>2, <1>3, <1>4, <1>5

-----------------------------------------------------------------------------
(* After the import: the log and the mailbox. *)
LEMMA LogStepKeeps ==
  ASSUME Inv, NEW r \in Runs, WriteLog(r)
  PROVE  Inv'
<1> USE DEF mailbox, event
<1> DEFINE m == Current(r)
           x == [run[r] EXCEPT !.pc = "mark"]
<1>1. /\ run[r] \in RunStates /\ RunOK(run[r]) /\ m \in Messages
      /\ m = Head(run[r].queue) /\ run[r].pc = "log"
      /\ run \in [Runs -> RunStates]
  BY AtWork DEF WriteLog, At, Working, Inv, Types
<1>2. x \in RunStates /\ x.pc = "mark" /\ x.queue = run[r].queue
      /\ x.attempts = run[r].attempts /\ x.ok = run[r].ok
  BY <1>1 DEF RunStates, Working
<1>3. run' = [run EXCEPT ![r] = x] /\ UNCHANGED <<mailbox, event>>
  BY <1>1 DEF WriteLog, Goto
<1>4. run[r].attempts \in Nat
  BY <1>1 DEF RunStates
<1> HIDE DEF x
<1>5. log' = [log EXCEPT ![m] = [result |-> IF run[r].ok THEN "done" ELSE "error",
                                attempts |-> run[r].attempts]]
  BY DEF WriteLog
<1> HIDE DEF m
<1>6. Types' /\ run'[r] = x /\ \A q \in Runs \ {r} : run'[q] = run[q]
  <2>1. log' \in [Messages -> [result : {None, "done", "error"}, attempts : Nat]]
    BY <1>1, <1>4, <1>5 DEF Inv, Types
  <2> QED
    BY <1>1, <1>2, <1>3, <2>1 DEF Inv, Types
<1>7. Grows
  <2>1. \A n \in Messages : failed[n] \in Int
    BY DEF Inv, Types
  <2> QED
    BY <1>3, <2>1 DEF Grows
<1>8. RunOK(run[r])'
  BY <1>1, <1>2, <1>3, <1>6 DEF RunOK, Accounted, Working
<1>9. RunsOK'
  BY <1>6, <1>7, <1>8, RunStep DEF Inv
<1>10. LogAccounted'
  <2>1. Accounted(m, run[r].attempts)
    BY <1>1 DEF RunOK
  <2>2. \A n \in Messages : log'[n].attempts = IF n = m THEN run[r].attempts
                                               ELSE log[n].attempts
    BY <1>5 DEF Inv, Types
  <2> QED
    BY <1>1, <1>3, <2>1, <2>2 DEF Inv, LogAccounted, Accounted
<1>11. NoSilentLoss'
  BY <1>3, <1>6, <1>7, LossStep DEF Inv
<1>12. NothingProcessed' /\ ShowsNewest'
  BY <1>3 DEF Inv, NothingProcessed, ShowsNewest, Supersedes, Cancels
<1> QED
  BY <1>6, <1>9, <1>10, <1>11, <1>12 DEF Inv

LEMMA MarkStep ==
  ASSUME Inv, NEW r \in Runs, MarkProcessed(r)
  PROVE  Inv'
<1> DEFINE m == Current(r)
           x == [Idle EXCEPT !.pc = "next", !.queue = Tail(run[r].queue)]
<1>1. /\ run[r] \in RunStates /\ RunOK(run[r]) /\ m \in Messages
      /\ m = Head(run[r].queue) /\ run[r].pc = "mark"
      /\ Tail(run[r].queue) \in Seq(Messages)
      /\ run \in [Runs -> RunStates] /\ inbox \in Seq(Messages)
      /\ sent \subseteq Messages /\ failed \in [Messages -> 0..MaxAttempts]
  BY AtWork DEF MarkProcessed, At, Working, Inv, Types
<1>2. x \in RunStates /\ x.pc = "next"
  BY <1>1, IdleType
<1>3. /\ run' = [run EXCEPT ![r] = x] /\ UNCHANGED <<sent, event, log>>
      /\ inbox' = IF Settles(r) THEN Without(inbox, m) ELSE inbox
  BY DEF MarkProcessed, NextMessage
<1> HIDE DEF x, m
<1>4. /\ inbox' \in Seq(Messages)
      /\ \A n \in ToSet(inbox) : n # m \/ ~Settles(r) => n \in ToSet(inbox')
  BY <1>1, <1>3, WithoutIs
<1>5. Types' /\ run'[r] = x /\ \A q \in Runs \ {r} : run'[q] = run[q]
  BY <1>1, <1>2, <1>3, <1>4 DEF Inv, Types, event
<1>6. Grows
  BY <1>1, <1>3 DEF Grows, event
<1>7. RunOK(run[r])'
  BY <1>2, <1>5 DEF RunOK, Working
<1>8. RunsOK'
  BY <1>5, <1>6, <1>7, RunStep DEF Inv
<1>9. LogAccounted'
  BY <1>3, <1>5, <1>6, LogStep DEF Inv
<1>10. Settles(r) => m \in settled \/ failed[m] = MaxAttempts
  <2>1. run[r].attempts \in Nat /\ failed[m] \in 0..MaxAttempts
    BY <1>1 DEF RunStates
  <2>2. run[r].ok => m \in settled
    BY <1>1 DEF RunOK
  <2>3. m \in settled \/ run[r].attempts <= failed[m] \/ failed[m] = MaxAttempts
    BY <1>1 DEF RunOK, Accounted
  <2> QED
    BY <2>1, <2>2, <2>3, OutlookAssumption DEF Settles
<1>11. NoSilentLoss'
  BY <1>3, <1>4, <1>10 DEF Inv, NoSilentLoss, event
<1>12. NothingProcessed' /\ ShowsNewest'
  BY <1>3 DEF Inv, NothingProcessed, ShowsNewest, Supersedes, Cancels, event
<1> QED
  BY <1>5, <1>8, <1>9, <1>11, <1>12 DEF Inv

-----------------------------------------------------------------------------
(* The import.                                                             *)

(* What the other conjuncts need of a step that processes a message. *)
LEMMA ProcessStep ==
  ASSUME Inv, NEW r \in Runs, NEW x \in RunStates,
         run' = [run EXCEPT ![r] = x], UNCHANGED <<mailbox, log>>,
         settled' \subseteq Messages, failed' \in [Messages -> 0..MaxAttempts],
         row' \in Messages \cup {None}, Grows, RunOK(run[r])',
         NothingProcessed', ShowsNewest'
  PROVE  Inv'
<1> USE DEF mailbox
<1>1. Types' /\ run'[r] = x /\ \A q \in Runs \ {r} : run'[q] = run[q]
  BY DEF Inv, Types
<1>2. RunsOK'
  BY <1>1, RunStep DEF Inv
<1>3. LogAccounted' /\ NoSilentLoss'
  BY <1>1, LogStep, LossStep DEF Inv
<1> QED
  BY <1>1, <1>2, <1>3 DEF Inv

LEMMA FailStep ==
  ASSUME Inv, NEW r \in Runs, At(r, "import") \/ At(r, "insert"), Failed(r),
         UNCHANGED <<mailbox, row, deleted, settled, unknown, log>>
  PROVE  Inv'
<1> DEFINE m == Current(r)
           x == [run[r] EXCEPT !.pc = "log", !.ok = FALSE]
<1>1. /\ run[r] \in RunStates /\ RunOK(run[r]) /\ m \in Messages
      /\ m = Head(run[r].queue) /\ run[r].pc \in {"import", "insert"}
      /\ run[r].queue # << >>
      /\ run \in [Runs -> RunStates] /\ failed \in [Messages -> 0..MaxAttempts]
  BY AtWork DEF At, Working, Inv, Types
<1>2. /\ x \in RunStates /\ x.pc = "log" /\ x.queue = run[r].queue
      /\ x.attempts = run[r].attempts /\ x.ok = FALSE
  BY <1>1 DEF RunStates, Working
<1>3. /\ run' = [run EXCEPT ![r] = x]
      /\ failed' = [failed EXCEPT ![m] = IF @ < MaxAttempts THEN @ + 1 ELSE @]
  BY <1>1 DEF Failed, Processed
<1> HIDE DEF x, m
<1>4. \A n \in Messages :
         failed'[n] = IF n = m /\ failed[n] < MaxAttempts THEN failed[n] + 1
                      ELSE failed[n]
  BY <1>1, <1>3
<1>5. \A n \in Messages : failed[n] \in 0..MaxAttempts
  BY <1>1
<1>6. failed' \in [Messages -> 0..MaxAttempts]
  BY <1>1, <1>3, <1>5, OutlookAssumption
<1>7. Grows
  BY <1>4, <1>5, OutlookAssumption DEF Grows
<1>8. Accounted(m, run[r].attempts)'
  <2>1. Accounted(m, run[r].attempts - 1)
    BY <1>1 DEF RunOK
  <2>2. run[r].attempts \in Nat
    BY <1>1 DEF RunStates
  <2>3. run'[r].attempts = run[r].attempts /\ m' = m
    BY <1>1, <1>2, <1>3 DEF m, Current
  <2> QED
    BY <1>1, <1>4, <1>5, <2>1, <2>2, <2>3, OutlookAssumption DEF Accounted
<1>9. RunOK(run[r])'
  <2>1. run'[r] = x /\ m' = Head(run[r].queue)
    BY <1>1, <1>2, <1>3 DEF m, Current
  <2> QED
    BY <1>1, <1>2, <1>8, <2>1 DEF RunOK, Accounted
<1>10. NothingProcessed' /\ ShowsNewest'
  BY DEF Inv, NothingProcessed, ShowsNewest, Supersedes, Cancels
<1> QED
  BY <1>2, <1>3, <1>6, <1>7, <1>9, <1>10, ProcessStep DEF Inv, Types

LEMMA SupersedesItself ==
  ASSUME NEW m \in Messages, Method[m] # "other"
  PROVE  Supersedes(m, m)
BY OutlookAssumption DEF Supersedes, Cancels

(* A message that is neither of another method nor up to date supersedes all  *)
(* the row supersedes; one that is up to date is superseded by the row.       *)
LEMMA SupersedesMore ==
  ASSUME NEW m \in Messages, NEW n \in Messages, row \in Messages,
         Supersedes(row, n), Method[m] # "other", ~UpToDate(m)
  PROVE  Supersedes(m, n)
BY OutlookAssumption DEF Supersedes, Cancels, UpToDate

LEMMA UpToDateIsSuperseded ==
  ASSUME NEW m \in Messages, row \in Messages, UpToDate(m)
  PROVE  Supersedes(row, m)
BY OutlookAssumption DEF Supersedes, UpToDate

LEMMA ImportStep ==
  ASSUME Inv, NEW r \in Runs, Import(r)
  PROVE  Inv'
<1> USE DEF mailbox
<1> DEFINE m == Current(r)
           done == [run[r] EXCEPT !.pc = "log", !.ok = TRUE]
           half == [run[r] EXCEPT !.pc = "insert"]
<1>1. /\ run[r] \in RunStates /\ RunOK(run[r]) /\ m \in Messages
      /\ m = Head(run[r].queue) /\ run[r].pc = "import" /\ run[r].queue # << >>
      /\ run \in [Runs -> RunStates] /\ failed \in [Messages -> 0..MaxAttempts]
      /\ settled \subseteq Messages /\ row \in Messages \cup {None}
  BY AtWork DEF Import, At, Working, Inv, Types
<1>2. /\ done \in RunStates /\ done.pc = "log" /\ done.queue = run[r].queue
      /\ half \in RunStates /\ half.pc = "insert" /\ half.queue = run[r].queue
      /\ half.attempts = run[r].attempts
  BY <1>1 DEF RunStates, Working
<1>3. UNCHANGED <<mailbox, deleted, failed, log>>
  BY DEF Import
<1>4. settled \subseteq settled' => Grows
  <2>1. \A n \in Messages : failed[n] \in Int
    BY <1>1
  <2> QED
    BY <1>3, <2>1 DEF Grows
<1>5. ASSUME Processed(r, TRUE), settled' = settled \cup {m}
      PROVE  run' = [run EXCEPT ![r] = done] /\ RunOK(run[r])'
  <2>1. run' = [run EXCEPT ![r] = done]
    BY <1>1, <1>5 DEF Processed
  <2> HIDE DEF done, m
  <2>2. run'[r] = done /\ Head(run[r].queue) \in settled'
    BY <1>1, <1>5, <2>1
  <2> QED
    BY <1>1, <1>2, <2>1, <2>2 DEF RunOK, Accounted, Working
<1>6. CASE /\ Ignores(m) /\ row' = row /\ Processed(r, TRUE)
           /\ settled' = settled \cup {m}
           /\ unknown' = IF row = None THEN unknown \cup {m} ELSE unknown
  <2> HIDE DEF m, done, half
  <2>1. NothingProcessed'
    BY <1>6 DEF NothingProcessed, Inv
  <2>2. ASSUME row # None, ~deleted, NEW n \in settled' \ unknown', Method[n] # "other"
        PROVE  Supersedes(row, n)
    <3>1. CASE n \in settled \ unknown
      BY <2>2, <3>1 DEF Inv, ShowsNewest
    <3>2. CASE n = m
      <4>1. UpToDate(m) /\ row \in Messages
        BY <1>1, <1>6, <2>2, <3>2 DEF Ignores
      <4> QED
        BY <1>1, <3>2, <4>1, UpToDateIsSuperseded
    <3> QED
      BY <1>6, <2>2, <3>1, <3>2
  <2>3. ShowsNewest'
    BY <1>3, <1>6, <2>2 DEF ShowsNewest, Supersedes, Cancels
  <2> QED
    BY <1>1, <1>2, <1>3, <1>4, <1>5, <1>6, <2>1, <2>3, ProcessStep DEF Inv, Types
<1>7. CASE /\ ~Ignores(m) /\ row # None /\ row' = m /\ Processed(r, TRUE)
           /\ settled' = settled \cup {m} /\ unknown' = unknown
  <2> HIDE DEF m, done, half
  <2>1. m # None
    BY <1>1, OutlookAssumption
  <2>2. NothingProcessed'
    BY <1>7, <2>1 DEF NothingProcessed
  <2>3. ASSUME ~deleted, NEW n \in settled' \ unknown', Method[n] # "other"
        PROVE  Supersedes(m, n)
    <3>1. Method[m] # "other" /\ ~UpToDate(m) /\ row \in Messages
      BY <1>1, <1>7 DEF Ignores
    <3>2. CASE n \in settled \ unknown
      <4>1. Supersedes(row, n) /\ n \in Messages
        BY <1>1, <1>7, <2>3, <3>2 DEF Inv, ShowsNewest
      <4> QED
        BY <1>1, <3>1, <4>1, SupersedesMore
    <3>3. CASE n = m
      BY <1>1, <3>1, <3>3, SupersedesItself
    <3> QED
      BY <1>7, <2>3, <3>2, <3>3
  <2>4. ShowsNewest'
    BY <1>3, <1>7, <2>3 DEF ShowsNewest, Supersedes, Cancels
  <2> QED
    BY <1>1, <1>2, <1>3, <1>4, <1>5, <1>7, <2>2, <2>4, ProcessStep DEF Inv, Types
<1>8. CASE /\ ~Ignores(m) /\ row = None /\ Goto(r, "insert")
           /\ UNCHANGED <<row, settled, unknown>>
  <2>1. run' = [run EXCEPT ![r] = half]
    BY <1>1, <1>8 DEF Goto
  <2>2. Method[m] = "request" /\ ~Cancels(m)
    BY <1>1, <1>8, OutlookAssumption DEF Ignores, Cancels
  <2>3. Accounted(m, run[r].attempts - 1)
    BY <1>1 DEF RunOK
  <2> HIDE DEF half, m
  <2>4. RunOK(half)
    BY <1>1, <1>2, <2>2, <2>3 DEF RunOK
  <2> QED
    BY <1>2, <1>3, <1>8, <2>1, <2>4, QuietStep DEF event
<1> QED
  BY <1>6, <1>7, <1>8 DEF Import

LEMMA InsertStep ==
  ASSUME Inv, NEW r \in Runs, Insert(r)
  PROVE  Inv'
<1> USE DEF mailbox
<1> DEFINE m == Current(r)
           done == [run[r] EXCEPT !.pc = "log", !.ok = TRUE]
<1>1. /\ run[r] \in RunStates /\ RunOK(run[r]) /\ m \in Messages
      /\ m = Head(run[r].queue) /\ run[r].pc = "insert" /\ run[r].queue # << >>
      /\ run \in [Runs -> RunStates] /\ failed \in [Messages -> 0..MaxAttempts]
      /\ settled \subseteq Messages
  BY AtWork DEF Insert, At, Working, Inv, Types
<1>2. done \in RunStates /\ done.pc = "log" /\ done.queue = run[r].queue
  BY <1>1 DEF RunStates, Working
<1>3. CASE MayInsert
  <2>1. /\ row = None /\ row' = m /\ settled' = settled \cup {m}
        /\ UNCHANGED <<mailbox, deleted, unknown, failed, log>>
    BY <1>3 DEF Insert, MayInsert
  <2>2. run' = [run EXCEPT ![r] = done]
    BY <1>1, <1>3 DEF Insert, Processed
  <2>3. m # None /\ Method[m] = "request"
    BY <1>1, OutlookAssumption DEF RunOK
  <2> HIDE DEF done, m
  <2>4. Grows
    <3>1. \A n \in Messages : failed[n] \in Int
      BY <1>1
    <3> QED
      BY <2>1, <3>1 DEF Grows
  <2>5. RunOK(run[r])'
    <3>1. run'[r] = done /\ Head(run[r].queue) \in settled'
      BY <1>1, <2>1, <2>2
    <3> QED
      BY <1>1, <1>2, <3>1 DEF RunOK, Accounted, Working
  <2>6. NothingProcessed'
    BY <2>1, <2>3 DEF NothingProcessed
  <2>7. Supersedes(m, m)
    BY <1>1, <2>3, SupersedesItself
  <2>8. ShowsNewest'
    BY <2>1, <2>7 DEF ShowsNewest, Supersedes, Cancels, NothingProcessed, Inv
  <2> QED
    BY <1>1, <1>2, <2>1, <2>2, <2>4, <2>5, <2>6, <2>8, ProcessStep DEF Inv, Types
<1>4. CASE ~MayInsert
  BY <1>4, FailStep DEF Insert
<1> QED
  BY <1>3, <1>4

-----------------------------------------------------------------------------
(* The world outside.                                                      *)
LEMMA DeliverStep ==
  ASSUME Inv, NEW m \in Messages, Deliver(m)
  PROVE  Inv'
<1>1. /\ inbox \in Seq(Messages) /\ inbox' = Append(inbox, m)
      /\ sent' = sent \cup {m} /\ UNCHANGED <<event, log, run>>
  BY DEF Deliver, Inv, Types
<1>2. /\ inbox' \in Seq(Messages) /\ m \in ToSet(inbox')
      /\ ToSet(inbox) \subseteq ToSet(inbox')
  <2>1. /\ inbox' \in Seq(Messages) /\ Len(inbox') = Len(inbox) + 1
        /\ \A i \in 1..Len(inbox) : inbox'[i] = inbox[i]
        /\ inbox'[Len(inbox) + 1] = m
    BY <1>1, AppendProperties
  <2>2. /\ ToSet(inbox) = {inbox[i] : i \in 1..Len(inbox)}
        /\ ToSet(inbox') = {inbox'[i] : i \in 1..Len(inbox')}
    BY <1>1, <2>1 DEF ToSet
  <2> QED
    BY <1>1, <2>1, <2>2
<1>3. Types' /\ LogAccounted' /\ RunsOK'
  BY <1>1, <1>2 DEF Inv, Types, LogAccounted, RunsOK, RunOK, Accounted, Cancels, event
<1>4. NoSilentLoss'
  BY <1>1, <1>2 DEF Inv, NoSilentLoss, event
<1>5. NothingProcessed' /\ ShowsNewest'
  BY <1>1 DEF Inv, NothingProcessed, ShowsNewest, Supersedes, Cancels, event
<1> QED
  BY <1>3, <1>4, <1>5 DEF Inv

\* Only the reservation's deletion or the lock changes.
LEMMA OtherStep ==
  ASSUME Inv, UNCHANGED <<mailbox, row, settled, unknown, failed, log, run>>,
         deleted => deleted'
  PROVE  Inv'
<1> USE DEF mailbox
<1>1. Types' /\ LogAccounted' /\ RunsOK' /\ NoSilentLoss'
  BY DEF Inv, Types, LogAccounted, RunsOK, RunOK, Accounted, Cancels, NoSilentLoss
<1>2. NothingProcessed' /\ ShowsNewest'
  BY DEF Inv, NothingProcessed, ShowsNewest, Supersedes, Cancels
<1> QED
  BY <1>1, <1>2 DEF Inv

-----------------------------------------------------------------------------
LEMMA InitEstablishesInv == Init => Inv
<1> SUFFICES ASSUME Init
             PROVE  Inv
  OBVIOUS
<1>1. Types
  <2>1. inbox \in Seq(Messages) /\ run \in [Runs -> RunStates]
    BY IdleType, EmptySeq DEF Init
  <2>2. log \in [Messages -> [result : {None, "done", "error"}, attempts : Nat]]
    BY DEF Init, NeverTried
  <2>3. failed \in [Messages -> 0..MaxAttempts]
    BY OutlookAssumption DEF Init
  <2> QED
    BY <2>1, <2>2, <2>3 DEF Init, Types
<1>2. LogAccounted
  BY OutlookAssumption DEF Init, LogAccounted, Accounted, NeverTried
<1>3. RunsOK
  BY DEF Init, RunsOK, RunOK, Idle, Working
<1>4. NothingProcessed /\ ShowsNewest /\ NoSilentLoss
  BY DEF Init, NothingProcessed, ShowsNewest, NoSilentLoss
<1> QED
  BY <1>1, <1>2, <1>3, <1>4 DEF Inv

LEMMA NextKeepsInv == Inv /\ [Next]_vars => Inv'
<1> SUFFICES ASSUME Inv, [Next]_vars
             PROVE  Inv'
  OBVIOUS
<1>1. ASSUME NEW m \in Messages, Deliver(m)
      PROVE  Inv'
  BY <1>1, DeliverStep
<1>2. CASE Delete
  BY <1>2, OtherStep DEF Delete
<1>3. ASSUME NEW r \in Runs, Cycle(r)
      PROVE  Inv'
  <2>1. CASE \/ Lock(r) \/ ListUnread(r) \/ PreviousAttempts(r) \/ Finish(r)
    BY <2>1, BetweenMessages
  <2>2. CASE Import(r) \/ Insert(r)
    BY <2>2, ImportStep, InsertStep
  <2>3. CASE ImportFails(r)
    BY <2>3, FailStep DEF ImportFails
  <2>4. CASE WriteLog(r) \/ MarkProcessed(r)
    BY <2>4, LogStepKeeps, MarkStep
  <2> QED
    BY <1>3, <2>1, <2>2, <2>3, <2>4 DEF Cycle
<1>4. ASSUME NEW r \in Runs, Fails(r)
      PROVE  Inv'
  <2>1. CASE CycleFails(r) \/ MarkFails(r) \/ Crash(r) \/ Dropped(r)
    BY <2>1, BetweenMessages
  <2>2. CASE ConnectionLost(r)
    BY <2>2, OtherStep DEF ConnectionLost, event
  <2> QED
    BY <1>4, <2>1, <2>2 DEF Fails
<1>5. ASSUME NEW r \in Runs, ConnectionCloses(r)
      PROVE  Inv'
  BY <1>5, OtherStep DEF ConnectionCloses, event
<1>6. CASE UNCHANGED vars
  BY <1>6, OtherStep DEF vars, mailbox, event
<1> QED
  BY <1>1, <1>2, <1>3, <1>4, <1>5, <1>6 DEF Next

(* The invariant holds of every behaviour, however many pollers share the      *)
(* mailbox (poller.rs, importer.rs).                                           *)
THEOREM OutlookInvariance == Spec => []Inv
<1>1. Spec => Init /\ [][Next]_vars
  BY PTL DEF Spec
<1> QED
  BY <1>1, InitEstablishesInv, NextKeepsInv, PTL

(* An old or repeated message never overwrites what the reservation shows      *)
(* (importer.rs:118-133).                                                      *)
THEOREM NewestIsShown == Spec => []ShowsNewest
<1>1. Inv => ShowsNewest
  BY DEF Inv
<1> QED
  BY <1>1, OutlookInvariance, PTL

(* A message leaves the inbox processed, or after as many failures as the      *)
(* limit says (poller.rs:137-159).                                             *)
THEOREM NothingIsLost == Spec => []NoSilentLoss
<1>1. Inv => NoSilentLoss
  BY DEF Inv
<1> QED
  BY <1>1, OutlookInvariance, PTL
=============================================================================

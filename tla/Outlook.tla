------------------------------ MODULE Outlook -------------------------------
(***************************************************************************)
(* The Outlook synchronisation of server/src/domains/outlook_sync: poller  *)
(* cycles that read an intake mailbox, import the invite of every unread   *)
(* message, log the result and archive the message.  Several servers poll  *)
(* the same mailbox, kept apart by an advisory lock that belongs to a      *)
(* database connection.                                                    *)
(*                                                                         *)
(* All messages are about one calendar event (one ical_uid); the          *)
(* reservation it becomes is known by the message it shows.                *)
(***************************************************************************)
EXTENDS Integers, Sequences, FiniteSets, SequencesExt

CONSTANTS Runs,          \* a cycle of each server's loop, or of an admin's request
          Messages,
          Method,        \* of a message: "request", "cancel" or "other"
          Sequence,      \* of a message: SEQUENCE of its invite
          Reserving,     \* messages that name a resource of Kuutar
          Breakable,     \* messages of which one may fail at every import
          MaxAttempts,   \* attempts before a message is set aside (5)
          Top,           \* messages listed at a time (25)
          MaxFaults,     \* bound: failures, crashes and lost connections
          None

ASSUME OutlookAssumption == /\ Method \in [Messages -> {"request", "cancel", "other"}]
                            /\ Sequence \in [Messages -> Nat]
                            /\ Reserving \subseteq Messages
                            /\ Breakable \subseteq Messages
                            /\ None \notin Messages
                            /\ MaxAttempts \in Nat \ {0}
                            /\ Top \in Nat \ {0}

VARIABLES inbox,     \* unread messages in the order they were received
          sent,      \* messages delivered so far
          poison,    \* messages whose import always fails
          row,       \* reservation of the event: None, or the message it shows
          deleted,   \* the reservation was deleted in Kuutar
          log,       \* outlook_sync_log: result and attempts of every message
          lock,      \* run whose connection holds the advisory lock, or None
          leaked,    \* that connection went back to the pool with the lock
          run,       \* of every run, how far it is
          settled,   \* history: messages whose processing ended without error
          unknown,   \* history: messages ignored as there was no reservation yet
          failed,    \* history: of every message, the failures (MaxAttempts at most)
          faults

vars == <<inbox, sent, poison, row, deleted, log, lock, leaked, run, settled,
          unknown, failed, faults>>

mailbox == <<inbox, sent, poison>>
event   == <<row, deleted, settled, unknown, failed>>
locking == <<lock, leaked>>

Idle == [pc |-> "idle", queue |-> << >>, attempts |-> 0, ok |-> FALSE]
NeverTried == [result |-> None, attempts |-> 0]

Init == /\ inbox = << >> /\ sent = {}
        /\ poison \in {{}} \union {{m} : m \in Breakable}
        /\ row = None /\ deleted = FALSE
        /\ log = [m \in Messages |-> NeverTried]
        /\ lock = None /\ leaked = FALSE
        /\ run = [r \in Runs |-> Idle]
        /\ settled = {} /\ unknown = {}
        /\ failed = [m \in Messages |-> 0]
        /\ faults = 0

At(r, pc) == run[r].pc = pc
Goto(r, pc) == run' = [run EXCEPT ![r].pc = pc]
Current(r) == Head(run[r].queue)
Fault == faults < MaxFaults /\ faults' = faults + 1

-----------------------------------------------------------------------------
(* The world outside: mail arrives, a user deletes the reservation.        *)

Deliver(m) ==
    /\ m \notin sent
    /\ sent' = sent \union {m}
    /\ inbox' = Append(inbox, m)
    /\ UNCHANGED <<poison, event, log, locking, run, faults>>

Delete ==
    /\ row # None
    /\ deleted' = TRUE
    /\ UNCHANGED <<mailbox, row, log, locking, run, settled, unknown, failed, faults>>

-----------------------------------------------------------------------------
(* run_cycle.                                                              *)

\* The lock is free, or this run was given the very connection an earlier one
\* left it on: an advisory lock is granted again to the session that holds it.
Lock(r) ==
    /\ At(r, "idle")
    /\ lock = None \/ (lock = r /\ leaked)
    /\ lock' = r
    /\ Goto(r, "list")
    /\ UNCHANGED <<mailbox, event, log, leaked, faults>>

\* The service returns the newest Top messages; they are sorted by arrival.
ListUnread(r) ==
    /\ At(r, "list")
    /\ run' = [run EXCEPT ![r].pc = "next",
                          ![r].queue = IF Len(inbox) <= Top THEN inbox
                                       ELSE SubSeq(inbox, Len(inbox) - Top + 1,
                                                   Len(inbox))]
    /\ UNCHANGED <<mailbox, event, log, locking, faults>>

\* Mutant: attempts are not counted over cycles.
PreviousAttempts_Forgotten(r) ==
    /\ At(r, "next") /\ run[r].queue # << >>
    /\ run' = [run EXCEPT ![r].pc = "import", ![r].attempts = 1]
    /\ UNCHANGED <<mailbox, event, log, locking, faults>>

PreviousAttempts(r) ==
    /\ At(r, "next") /\ run[r].queue # << >>
    /\ run' = [run EXCEPT ![r].pc = "import",
                          ![r].attempts = log[Current(r)].attempts + 1]
    /\ UNCHANGED <<mailbox, event, log, locking, faults>>

Processed(r, ok) == run' = [run EXCEPT ![r].pc = "log", ![r].ok = ok]

Failed(r) == /\ Processed(r, FALSE)
             /\ failed' = [failed EXCEPT ![Current(r)] =
                             IF @ < MaxAttempts THEN @ + 1 ELSE @]

-----------------------------------------------------------------------------
(* import_invite.                                                          *)

Cancels(m) == Method[m] = "cancel" \/ m \notin Reserving

\* The stored sequence is newer, or this request was seen already.
UpToDate(m) == \/ Sequence[m] < Sequence[row]
               \/ Sequence[m] = Sequence[row] /\ Method[m] = "request"

Ignores(m) == \/ Method[m] = "other"
              \/ row # None /\ (deleted \/ UpToDate(m))
              \/ row = None /\ Cancels(m)

\* The reservation's row is locked from the SELECT to the commit, so the import
\* is one step if there is one; otherwise nothing is locked, and the INSERT is a
\* step of its own.
Import(r) ==
    /\ At(r, "import") /\ Current(r) \notin poison
    /\ LET m == Current(r)
       IN  \/ /\ Ignores(m)
              /\ unknown' = IF row = None THEN unknown \union {m} ELSE unknown
              /\ settled' = settled \union {m}
              /\ Processed(r, TRUE)
              /\ row' = row
           \/ /\ ~Ignores(m) /\ row # None
              /\ row' = m
              /\ settled' = settled \union {m}
              /\ Processed(r, TRUE)
              /\ unknown' = unknown
           \/ /\ ~Ignores(m) /\ row = None
              /\ Goto(r, "insert")
              /\ UNCHANGED <<row, settled, unknown>>
    /\ UNCHANGED <<mailbox, deleted, failed, log, locking, faults>>

\* The unique index on ical_uid refuses a second reservation of the event.
\* Mutant: there is no such index.
MayInsert_NoIndex == TRUE
MayInsert == row = None

Insert(r) ==
    /\ At(r, "insert")
    /\ IF MayInsert
       THEN /\ row' = Current(r)
            /\ settled' = settled \union {Current(r)}
            /\ Processed(r, TRUE)
            /\ failed' = failed
       ELSE /\ Failed(r)
            /\ UNCHANGED <<row, settled>>
    /\ UNCHANGED <<mailbox, deleted, unknown, log, locking, faults>>

\* A broken message, or a failure of the moment while the invite is read.
ImportFails(r) ==
    /\ At(r, "import") \/ At(r, "insert")
    /\ \/ Current(r) \in poison /\ faults' = faults
       \/ Fault
    /\ Failed(r)
    /\ UNCHANGED <<mailbox, row, deleted, settled, unknown, log, locking>>

-----------------------------------------------------------------------------
(* After the import.                                                       *)

WriteLog(r) ==
    /\ At(r, "log")
    /\ log' = [log EXCEPT ![Current(r)] =
                 [result |-> IF run[r].ok THEN "done" ELSE "error",
                  attempts |-> run[r].attempts]]
    /\ Goto(r, "mark")
    /\ UNCHANGED <<mailbox, event, locking, faults>>

NextMessage(r) == run' = [run EXCEPT ![r] = [Idle EXCEPT !.pc = "next",
                                                !.queue = Tail(run[r].queue)]]

\* Mutant: a failed message is set aside at once.
Settles_AtOnce(r) == TRUE
Settles(r) == run[r].ok \/ run[r].attempts >= MaxAttempts

\* A mailbox without a message, which is in it at most once.
Without(box, m) ==
    IF m \in ToSet(box) THEN RemoveAt(box, CHOOSE i \in DOMAIN box : box[i] = m)
    ELSE box

\* The message is archived, unless it is left unread for another attempt.
MarkProcessed(r) ==
    /\ At(r, "mark")
    /\ inbox' = IF Settles(r) THEN Without(inbox, Current(r)) ELSE inbox
    /\ NextMessage(r)
    /\ UNCHANGED <<sent, poison, event, log, locking, faults>>

MarkFails(r) ==
    /\ At(r, "mark") /\ Settles(r)
    /\ Fault
    /\ NextMessage(r)
    /\ UNCHANGED <<mailbox, event, log, locking>>

\* The lock is released, unless it is held twice or was lost meanwhile.
Unlocks(r) == lock' = IF lock = r /\ ~leaked THEN None ELSE lock

Finish(r) ==
    /\ At(r, "next") /\ run[r].queue = << >>
    /\ run' = [run EXCEPT ![r] = Idle]
    /\ Unlocks(r)
    /\ UNCHANGED <<mailbox, event, log, leaked, faults>>

-----------------------------------------------------------------------------
(* Failures.                                                               *)

\* Listing, reading the attempts or writing the log fails: the cycle ends.
CycleFails(r) ==
    /\ At(r, "list") \/ At(r, "next") \/ At(r, "log")
    /\ Fault
    /\ run' = [run EXCEPT ![r] = Idle]
    /\ Unlocks(r)
    /\ UNCHANGED <<mailbox, event, log, leaked>>

\* The process dies, and the lock with its connection.
Crash(r) ==
    /\ ~At(r, "idle") \/ lock = r
    /\ Fault
    /\ run' = [run EXCEPT ![r] = Idle]
    /\ IF lock = r THEN lock' = None /\ leaked' = FALSE ELSE UNCHANGED locking
    /\ UNCHANGED <<mailbox, event, log>>

\* The admin's request for a run is dropped with its handler: the connection
\* goes back to the pool, and the lock stays on it.
Dropped(r) ==
    /\ ~At(r, "idle")
    /\ Fault
    /\ run' = [run EXCEPT ![r] = Idle]
    /\ leaked' = (leaked \/ lock = r)
    /\ UNCHANGED <<mailbox, event, log, lock>>

\* The connection that holds the lock breaks while the run uses others.
ConnectionLost(r) ==
    /\ lock = r /\ ~At(r, "idle")
    /\ Fault
    /\ lock' = None /\ leaked' = FALSE
    /\ UNCHANGED <<mailbox, event, log, run>>

\* A pooled connection is closed sooner or later.
ConnectionCloses(r) ==
    /\ lock = r /\ leaked /\ At(r, "idle")
    /\ lock' = None /\ leaked' = FALSE
    /\ UNCHANGED <<mailbox, event, log, run, faults>>

-----------------------------------------------------------------------------
Cycle(r) == \/ Lock(r) \/ ListUnread(r) \/ PreviousAttempts(r) \/ Import(r)
            \/ Insert(r) \/ ImportFails(r) \/ WriteLog(r) \/ MarkProcessed(r)
            \/ Finish(r)

Fails(r) == CycleFails(r) \/ MarkFails(r) \/ Crash(r) \/ Dropped(r) \/ ConnectionLost(r)

Next == \/ \E m \in Messages : Deliver(m)
        \/ Delete
        \/ \E r \in Runs : Cycle(r) \/ Fails(r) \/ ConnectionCloses(r)

\* The loop polls for ever and a cycle that is not interrupted goes on; the pool
\* does not keep a connection for ever.
Spec == /\ Init /\ [][Next]_vars
        /\ \A r \in Runs : WF_vars(Cycle(r)) /\ WF_vars(ConnectionCloses(r))

-----------------------------------------------------------------------------
TypeOK ==
    /\ inbox \in Seq(Messages) /\ sent \subseteq Messages
    /\ row \in Messages \union {None}
    /\ \A m \in Messages : log[m].result \in {None, "done", "error"}
    /\ lock \in Runs \union {None} /\ leaked \in BOOLEAN
    /\ \A r \in Runs : run[r].queue \in Seq(Messages)
    /\ settled \union unknown \subseteq sent

Supersedes(m, n) ==
    \/ Sequence[m] > Sequence[n]
    \/ Sequence[m] = Sequence[n] /\ (Cancels(m) \/ Method[n] = "request")

\* Whatever the order, the repetitions after a crash and the number of pollers,
\* the reservation shows the newest message that was processed: an old or
\* repeated one never overwrites it.  The exceptions are messages of another
\* method and the ones ignored as there was no reservation yet to cancel: the
\* invite that comes after them is imported (importer.rs:118-133).
ShowsNewest ==
    row # None /\ ~deleted =>
        \A m \in settled \ unknown :
            Method[m] # "other" => Supersedes(row, m)

\* No message leaves the inbox without being processed, or having failed as
\* often as the limit says (poller.rs:137-159).
NoSilentLoss ==
    \A m \in sent \ settled :
        \/ m \in ToSet(inbox)
        \/ failed[m] = MaxAttempts

\* Every message leaves the inbox in the end, the broken ones too, once faults
\* stop: neither a failed message nor a lock left behind holds up the others.
InboxDrains == inbox # << >> ~> inbox = << >>
=============================================================================

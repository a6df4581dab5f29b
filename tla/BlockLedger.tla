----------------------------- MODULE BlockLedger -----------------------------
(***************************************************************************)
(* What the blocks-only rule promises, without requests, rows or locks: a  *)
(* ledger of who holds which slots, in which a booking is entered in one   *)
(* step and never clashes with another.                                    *)
(***************************************************************************)
CONSTANTS
  Bookings,
  Slots,
  Clashing    \* pairs of slots that cannot both be held

VARIABLE held   \* the slots each booking holds

TypeOK == held \in [Bookings -> SUBSET Slots]

Init == held = [b \in Bookings |-> {}]

(* Taken by b: no slot of another booking clashes with it. *)
FreeFor(b, slots) ==
  \A b2 \in Bookings \ {b} : \A s \in slots, s2 \in held[b2] : <<s, s2>> \notin Clashing

(* b holds these slots instead of the ones it held. *)
Book(b, slots) ==
  /\ FreeFor(b, slots)
  /\ held' = [held EXCEPT ![b] = slots]

Release(b, slots) == held' = [held EXCEPT ![b] = @ \ slots]

Next == \E b \in Bookings, slots \in SUBSET Slots : Book(b, slots) \/ Release(b, slots)

Spec == Init /\ [][Next]_held

(* No two bookings hold slots that clash. *)
Exclusive ==
  \A b, b2 \in Bookings :
    b # b2 => \A s \in held[b], s2 \in held[b2] : <<s, s2>> \notin Clashing
=============================================================================

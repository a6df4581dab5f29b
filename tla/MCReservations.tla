--------------------------- MODULE MCReservations ---------------------------
(***************************************************************************)
(* Instances of Reservations for TLC.  Room "hall" is reserved in blocks   *)
(* only, and two of its blocks overlap; room "lab" has no blocks.          *)
(***************************************************************************)
EXTENDS Reservations, TLC

CONSTANTS hall, lab

Hall1 == [rsc |-> hall, from |-> 1, to |-> 3]
Hall2 == [rsc |-> hall, from |-> 2, to |-> 4]
Lab1 == [rsc |-> lab, from |-> 1, to |-> 3]

MCPlaces == {Hall1, Hall2, Lab1}
HallPlaces == {Hall1, Hall2}
HallLists == {{Hall1}, {Hall2}}
SplitLists == {{Hall1, Hall2}}
MixedLists == {{Hall1}, {Hall1, Lab1}}
Everyone == {<<u, rsc>> : u \in Users, rsc \in Resources}
Everywhere == {<<u, p>> : u \in Users, p \in Places}

Symmetric == Permutations(Users) \cup Permutations(Reservations) \cup Permutations(Requests)
=============================================================================

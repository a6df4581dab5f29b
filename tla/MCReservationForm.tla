-------------------------- MODULE MCReservationForm --------------------------
(***************************************************************************)
(* An instance of ReservationForm: a room with a contract and a default    *)
(* duration, a sauna that is reserved in blocks, a workshop with a longest *)
(* duration, a last day and no series, which may be reserved, only seen or *)
(* not even seen.                                                          *)
(***************************************************************************)
EXTENDS ReservationForm, TLC

CONSTANTS room, sauna, workshop, house, roomContract

Plain == [blocks_only |-> FALSE, allow_recurring |-> TRUE, min |-> 0, max |-> 0, default |-> 0,
          until |-> None]
MCAttributes ==
  (room :> [Plain EXCEPT !.default = 2]) @@
  (sauna :> [Plain EXCEPT !.blocks_only = TRUE]) @@
  (workshop :> [Plain EXCEPT !.allow_recurring = FALSE, !.max = 1, !.default = 1,
                                  !.until = 2])

MCResourceLists ==
  {[listed |-> {room, sauna, workshop}, reservable |-> {room, sauna, workshop}],
   [listed |-> {room, sauna, workshop}, reservable |-> {room, sauna}],
   [listed |-> {room, sauna}, reservable |-> {room, sauna}]}
MCContracts == {house, roomContract}
MCLinkedTo == (house :> {}) @@ (roomContract :> {room})
MCContractLists == {{roomContract}, {house, roomContract}}
MCBlocks == {[of |-> sauna, start |-> 0, end |-> 1]}
=============================================================================

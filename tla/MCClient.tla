-------------------------------- MODULE MCClient --------------------------------
(***************************************************************************)
(* TLC instance of what the pages of the client are made from: the         *)
(* calendar, and the cache of the answers that pages show.  They share no  *)
(* variable, so each behaviour is one of a single part, and the state      *)
(* spaces add up.                                                          *)
(*                                                                         *)
(* The calendar has three months of six, three and four days, weeks of     *)
(* three days, days of six units of which a block takes two.  The clock is *)
(* put back in the morning of the first day of the second month.           *)
(***************************************************************************)
EXTENDS Calendar, QueryCache

CONSTANTS room, hall

MCMonthStarts == <<0, 6, 9, 13>>

Row(resource, start, end) == [resource |-> resource, start |-> start, end |-> end, reserved |-> FALSE]
Item(kind, rows) == [kind |-> kind, cancelled |-> FALSE, rows |-> rows]
Booking(start, end) == Item("reservation", {Row(room, start, end)})

(* Around the end of the first month, days 5 and 6 *)
Series == Item("reservation", {Row(room, 32, 34), Row(hall, 32, 34), Row(room, 38, 40)})
Closure == Item("restriction", {Row(None, 31, 32), Row(room, 37, 39)})
Offered == Item("block", {Row(room, 32, 33), Row(hall, 32, 33), [Row(room, 34, 36) EXCEPT !.reserved = TRUE]})

Candidates ==
  {Booking(30, 31), Booking(31, 32), Booking(31, 33), Booking(34, 35), Booking(30, 33), Booking(32, 38),
   Booking(35, 36), Booking(28, 39), [Booking(30, 36) EXCEPT !.cancelled = TRUE], Series, Closure, Offered}

Month == {Booking(34, 37), Series, Closure}
MCSchedules == {Month} \cup {s \in SUBSET Candidates : Cardinality(s) <= 3}
MCMaxMoves == [s \in MCSchedules |-> IF s = Month THEN 4 ELSE 1]

VARIABLE part

ClientInit ==
  /\ part \in {"calendar", "cache"}
  /\ Init /\ (part # "calendar" => items = {} /\ ~loaded /\ stored = [view |-> None, days |-> None])
  /\ CacheInit /\ (part # "cache" => key = CHOOSE k \in Keys : TRUE)

ClientNext ==
  \/ part = "calendar" /\ Next /\ UNCHANGED <<part, cacheVars>>
  \/ part = "cache" /\ CacheNext /\ UNCHANGED <<part, vars>>

ClientSpec == ClientInit /\ [][ClientNext]_<<part, vars, cacheVars>>
=============================================================================

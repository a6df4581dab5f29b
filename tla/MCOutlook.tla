----------------------------- MODULE MCOutlook ------------------------------
(* Instance of Outlook for TLC: an invite, its update and its cancellation. *)
EXTENDS Outlook, TLC

CONSTANTS r1, r2, invite, update, cancel

MCRuns      == {r1, r2}
MCMessages  == {invite, update, cancel}
MCMethod    == (invite :> "request") @@ (update :> "request") @@ (cancel :> "cancel")
MCSequence  == (invite :> 0) @@ (update :> 1) @@ (cancel :> 1)
MCReserving == {invite, update}
=============================================================================

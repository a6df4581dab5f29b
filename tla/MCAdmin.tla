-------------------------------- MODULE MCAdmin --------------------------------
(***************************************************************************)
(* TLC instance of the three pages where administrators change the data    *)
(* the rest of the system reads: the settings of a resource, the users,    *)
(* and the documents of a contract.  They share no variable, so each       *)
(* behaviour is one of a single page, and the state spaces add up.         *)
(***************************************************************************)
EXTENDS ResourceSettings, UserBatch, Documents, TLC

CONSTANTS g1, g2

Plain == [Payload(Blank) EXCEPT !.public = TRUE]
ExistingDef ==
  {[Plain EXCEPT !.public = FALSE, !.visible = {g1}, !.restricted = TRUE, !.reserve = {g1},
                 !.auto = TRUE, !.contracts = Contracts],
   [Plain EXCEPT !.public = FALSE, !.visible = {g2}, !.auto = TRUE, !.autoGroups = {g1},
                 !.until = 0],
   [Plain EXCEPT !.restricted = TRUE, !.reserve = {g1, g2},
                 !.durations = [shortest |-> 1, default |-> 2, longest |-> 2]]}
FallbackDef == <<"fi", "sv">>

VARIABLE part

AdminInit ==
  /\ part \in {"settings", "users", "documents"}
  /\ Init /\ (part # "settings" => resource = None)
  /\ BatchInit
  /\ DocInit
  /\ part # "users" => \A e \in Emails : users[e] # Nobody => users[e].contact

AdminNext ==
  \/ part = "settings" /\ Next /\ UNCHANGED <<part, batchVars, docVars>>
  \/ part = "users" /\ BatchNext /\ UNCHANGED <<part, vars, docVars>>
  \/ part = "documents" /\ DocNext /\ UNCHANGED <<part, vars, batchVars>>

AdminSpec == AdminInit /\ [][AdminNext]_<<part, vars, batchVars, docVars>>

Symmetry ==
  Permutations(Editors) \cup Permutations(Emails) \cup Permutations(UserGroups)
  \cup Permutations(Writers)
=============================================================================

----------------------------- MODULE MCSessions -----------------------------
(***************************************************************************)
(* An instance of Sessions: tokens live 2 units, sessions 4, replays are   *)
(* forgiven for 1, rows are purged after 4.                                *)
(***************************************************************************)
EXTENDS Sessions, TLC

Symmetric == Permutations(Users) \cup Permutations(Sessions)
               \cup Permutations(Tokens) \cup Permutations(Requests)
=============================================================================

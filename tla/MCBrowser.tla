------------------------------ MODULE MCBrowser ------------------------------
(***************************************************************************)
(* An instance of Browser: tab a with all its callers, tab b with requests *)
(* only; the user signs in and out in tab a.                               *)
(***************************************************************************)
EXTENDS Browser, TLC

CONSTANTS a, b

MCTabs == {a, b}
MCRequests == {<<a, "shared">>, <<a, "silent">>, <<b, "shared">>, <<a, "user">>}

Symmetric == Permutations(Tokens) \cup Permutations(Sessions)
=============================================================================

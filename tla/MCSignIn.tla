------------------------------ MODULE MCSignIn ------------------------------
(* Instance of SignIn for TLC: two tabs for what races, one tab for the    *)
(* progress, where a reduction by symmetry would not be sound.             *)
EXTENDS SignIn, TLC

CONSTANTS t1, t2, c1, c2

MCTabs   == {t1, t2}
OneTab   == {t1}
MCCalls  == {c1, c2}
Symmetry == Permutations(MCTabs) \union Permutations(MCCalls)
=============================================================================

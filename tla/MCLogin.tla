------------------------------- MODULE MCLogin -------------------------------
(* Tabs are alike, and so are logins: of these one user's or two processes'. *)
EXTENDS Login, TLC

Alike == Permutations(Tab) \cup Permutations(Login)
=============================================================================

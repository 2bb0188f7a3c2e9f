----------------------------- MODULE MCDirectory -----------------------------
(***************************************************************************)
(* Instances of Directory for TLC: two accounts, two names, two phones, two *)
(* profiles, every directory to start with.                                 *)
(***************************************************************************)
EXTENDS Directory, TLC

MCRoster == <<"alice", "bob">>

\* Names, phones and profiles are interchangeable; accounts are not, since
\* Authentik lists them in an order.
MCSymmetry == Permutations(Name) \cup Permutations(Aci) \cup Permutations(Profile)
=============================================================================

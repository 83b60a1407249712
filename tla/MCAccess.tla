------------------------------ MODULE MCAccess ------------------------------
(***************************************************************************)
(* Symmetry for Access: accounts, identities and emails are only compared. *)
(***************************************************************************)
EXTENDS Access, TLC

CONSTANTS u1, u2, u3, g1, g2, e1, e2, e3, c1

Interchangeable ==
    Permutations(Accounts) \cup Permutations(Subs) \cup Permutations(Emails)
=============================================================================

----------------------------- MODULE MCSeeding -------------------------------
(***************************************************************************)
(* A small instance of Seeding: two roles, a menu, a permission and a      *)
(* system user.                                                            *)
(***************************************************************************)
EXTENDS Seeding, TLC

CONSTANTS r1, r2, m1, u1

OneMenu  == <<m1>>
OneUser  == <<u1>>
OneGrant == <<<<r1, m1>>>>

Symmetry == Permutations(Seeders)
=============================================================================

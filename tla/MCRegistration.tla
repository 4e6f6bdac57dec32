--------------------------- MODULE MCRegistration ---------------------------
(***************************************************************************)
(* Small instances of Registration.                                        *)
(***************************************************************************)
EXTENDS Registration, TLC

Symmetry == Permutations(Requests) \cup Permutations(Rows)
                \cup Permutations(Emails) \cup Permutations(Names)
=============================================================================

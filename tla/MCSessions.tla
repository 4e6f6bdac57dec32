----------------------------- MODULE MCSessions -----------------------------
(***************************************************************************)
(* Small instances of Sessions.                                            *)
(***************************************************************************)
EXTENDS Sessions, TLC

CONSTANTS alice, a1, a2, a3

\* A login, its refresh and a second login or refresh.
MCOwner == [t \in {a1, a2, a3} |-> alice]

Symmetry == Permutations(Tokens) \cup Permutations(Requests)
=============================================================================

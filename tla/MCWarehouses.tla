---------------------------- MODULE MCWarehouses ----------------------------
(***************************************************************************)
(* Small instances of Warehouses.                                          *)
(***************************************************************************)
EXTENDS Warehouses, TLC

Symmetry == Permutations(Requests) \cup Permutations(Warehouses) \cup Permutations(Locations)
                \cup Permutations(Codes) \cup Permutations(Stocks)
=============================================================================

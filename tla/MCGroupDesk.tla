---------------------------- MODULE MCGroupDesk -----------------------------
(***************************************************************************)
(* GroupDesk on small instances.                                           *)
(***************************************************************************)
EXTENDS GroupDesk, TLC

Symmetry == Permutations(Requests) \cup Permutations(Claims) \cup Permutations(Keys)
            \cup Permutations(Closings)
=============================================================================

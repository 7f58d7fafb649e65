----------------------------- MODULE MCOneToOne -----------------------------
(***************************************************************************)
(* OneToOne on small instances.  All starts lie on a grid of one unit; two *)
(* durations make overlap differ from equality of starts.                  *)
(***************************************************************************)
EXTENDS OneToOne, TLC

Symmetry == Permutations(Requests) \cup Permutations(Ops) \cup Permutations(Keys)
=============================================================================

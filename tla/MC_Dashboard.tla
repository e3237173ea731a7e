---------------------------- MODULE MC_Dashboard ----------------------------
(* Dashboard with labels that can be exchanged: the page treats them alike. *)
EXTENDS Dashboard

Symmetry == Permutations(RouteLabel)
=============================================================================

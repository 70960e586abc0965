------------------------------ MODULE MCDeskSync -------------------------------
(* The desk on a small vault; see the cfgs.                                *)
EXTENDS DeskSync, TLC

(* Paths and client ids are compared and never ordered.                    *)
Symmetry == Permutations(Paths) \cup Permutations(ClientIds)
===============================================================================

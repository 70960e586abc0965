------------------------------ MODULE MCPhoneSync ------------------------------
(* The phone and its desk on small vaults; see the cfgs.                   *)
EXTENDS PhoneSync, TLC

(* Paths and client ids are compared and never ordered.                    *)
Symmetry == Permutations(Paths) \cup Permutations(ClientIds)
===============================================================================

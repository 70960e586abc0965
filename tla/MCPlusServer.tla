----------------------------- MODULE MCPlusServer -----------------------------
(* The Plus service on a small vault: files, blobs and the phone's queue.  *)
EXTENDS PlusServer, TLC

(* Paths and client ids are compared and never ordered.                    *)
Symmetry == Permutations(Paths) \cup Permutations(ClientIds)
================================================================================

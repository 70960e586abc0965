---------------------------- MODULE MCPlusAccount -----------------------------
(* PlusAccount for TLC: the cfgs give the bounds. *)
EXTENDS PlusAccount
===============================================================================

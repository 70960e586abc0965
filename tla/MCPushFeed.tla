------------------------------ MODULE MCPushFeed ------------------------------
(* PushFeed for TLC: the cfgs give the bounds. *)
EXTENDS PushFeed
===============================================================================

------------------------------ MODULE MCWatchLink -----------------------------
(* WatchLink for TLC: the cfgs give the bounds. *)
EXTENDS WatchLink
===============================================================================

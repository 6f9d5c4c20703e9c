---------------------------- MODULE MCWatchLoop ----------------------------
(* Small instances of WatchLoop.                                           *)
EXTENDS WatchLoop, TLC

CONSTANTS c1, c2, s1
=============================================================================

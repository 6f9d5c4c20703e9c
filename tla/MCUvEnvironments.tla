-------------------------- MODULE MCUvEnvironments --------------------------
(* Small instances of UvEnvironments.                                      *)
EXTENDS UvEnvironments, TLC

CONSTANTS s1, a, b, w1, w2
=============================================================================

--------------------------- MODULE MCSessionIndex ---------------------------
(* Small instances of SessionIndex.                                        *)
EXTENDS SessionIndex

CONSTANTS w1, w2
=============================================================================

--------------------------- MODULE MCProjectServer ---------------------------
EXTENDS ProjectServer

CONSTANTS c1, p1, f1, v1, v2
=============================================================================

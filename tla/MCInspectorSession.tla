------------------------- MODULE MCInspectorSession -------------------------
EXTENDS InspectorSession

CONSTANTS w1, w2

MCWaiters == {w1, w2}
=============================================================================

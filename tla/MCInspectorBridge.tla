-------------------------- MODULE MCInspectorBridge --------------------------
EXTENDS InspectorBridge

CONSTANTS o1, o2

MCOpeners == {o1, o2}
=============================================================================

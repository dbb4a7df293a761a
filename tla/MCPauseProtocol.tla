-------------------------- MODULE MCPauseProtocol --------------------------
EXTENDS PauseProtocol

\* One step code stands for into, over and out, which the protocol carries
\* alike.
MCStepCodes == {"over"}
MCNoStep == "none"
=============================================================================

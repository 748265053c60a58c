------------------------------ MODULE MCClient ------------------------------
EXTENDS Client, TLC

CONSTANTS p1, p2, f1, o1, n1

MCPeers == {p1, p2}
==============================================================================

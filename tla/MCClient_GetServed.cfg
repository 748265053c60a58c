CONSTANTS
  p1 = p1
  p2 = p2
  f1 = f1
  o1 = o1
  n1 = n1
  Peers <- MCPeers
  Shared = {f1}
  Outside = {o1}
  NoPrefix = {n1}
  Slots = {1}
  ArgBytes = 2
  MaxFreq = 1
  NoPeer = NoPeer
  NoPath = NoPath
SPECIFICATION Spec
CHECK_DEADLOCK FALSE
PROPERTY GetServed

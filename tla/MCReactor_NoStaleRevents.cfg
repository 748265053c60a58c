CONSTANTS
  c1 = c1
  c2 = c2
  Conns <- MCConns1
  Frames <- MCAllFrames
  FloodCommands = 1
  FloodTime = 1
  LoginTimeout = 0
  MaxSends = 3
SPECIFICATION Spec
PROPERTY
  NoStaleRevents

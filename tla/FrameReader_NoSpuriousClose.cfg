\* Two frames of payload 0, 1 or 3 bytes; Max_Command_Length 2, so a
\* 3-byte payload is too long for a user and fine for a server link;
\* buffer_decompress grows recvbuf 2 bytes at a time, so frames cross
\* growth boundaries.  A connection's life ends when it is destroyed.
CONSTANTS
  MaxLen = 2
  Grow = 2
  Lens = {0, 1, 3}
  MaxFrames = 2
SPECIFICATION Spec
INVARIANT NoSpuriousClose
CHECK_DEADLOCK FALSE

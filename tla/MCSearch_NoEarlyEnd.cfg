\* Two searches in all, one pending per user (Max_Searches), one split.
\* The inputs run out: a server then only waits in poll.
CONSTANTS
  a = a
  b = b
  c = c
  u1 = u1
  u2 = u2
  Servers <- MCServers
  Topology <- MCTopology
  Users <- MCUsers
  Home <- MCHome
  Max_Searches = 1
  MaxIds = 2
  MaxSplits = 1
SPECIFICATION Spec
INVARIANT NoEarlyEnd
CHECK_DEADLOCK FALSE

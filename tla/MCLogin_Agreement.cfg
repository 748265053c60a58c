\* One nick on three servers in a line, three logins over three seconds.
CONSTANTS
  a = a
  b = b
  c = c
  u = u
  Servers <- MCServers
  Topology <- MCTopology
  Nicks = {u}
  MaxTime = 2
  MaxLogins = 3
  MaxSplits = 1
SPECIFICATION Spec
CHECK_DEADLOCK FALSE
INVARIANT Agreement

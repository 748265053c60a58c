\* A local nick registered as moderator and a registered elite; the commands
\* come from either of them or from a peer server.
CONSTANTS
  Nicks = {"a", "b"}
  Local = {"a"}
  DbInit <- MCDbInit
  Server = "srv"
SPECIFICATION MCSpec
INVARIANT LevelCommandHonoured
CHECK_DEADLOCK FALSE

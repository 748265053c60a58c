\* The inputs (searches, logins, seconds, pings, messages) run out: the servers then only
\* wait in poll.
SPECIFICATION Spec
INVARIANTS
  SearchesCounted
  RoutedTowardHome
  ResultsNotBounced
  ModsExact
  CloakedOnlyMods
  PongsExact
  IgnoreHonoured
  EndIsLast
  ResultsWithinMax
  SingleOriginSettles
PROPERTIES
  SearchEnds
  PongsArrive
CHECK_DEADLOCK FALSE

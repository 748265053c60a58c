CONSTANTS
  Messages <- MCClientMessages
  Frames <- MCFrames
  MaxFrames = 2
SPECIFICATION Spec
INVARIANTS
  CountAgrees
  PrefixKeepsFields
  FieldsMatch
  StatsAgree
  OnlyAcceptedPeersServed
  TableConsistent
  ForeachExact
  LinesRoundTrip
  PassRoundTrip
PROPERTIES
  ServedWhenAsked
  ImplementsDictionary
\* The client's main thread exits or waits in recv once its inputs run out.
CHECK_DEADLOCK FALSE

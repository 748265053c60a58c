\* The bounds are in MCTransport.  A behaviour ends when its component
\* has done what its bounded inputs allow: the reader's connection is
\* destroyed, the chain, the link or the user's connection has sent all it may.
SPECIFICATION Spec
INVARIANTS
  NodesValid
  SendbufValid
  StreamIntact
  FramesInOrder
  SentinelInBounds
  PollKosher
  ClientsIndexed
  UserStreamInOrder
PROPERTIES
  ImplementsByteQueue
  AllSent
  ArrivedFramesDispatched
  ImplementsInterest
  UserOutputDrains
CHECK_DEADLOCK FALSE

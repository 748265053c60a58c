CONSTANTS
  NodeSize = 2
  MaxPlain = 4
  MaxOut = 3
  SendTarget = 4
  ServerChunk = 2
  ServerQueueLength = 1
SPECIFICATION Spec
PROPERTIES
  BacklogChecked

CONSTANTS
  Messages <- MCAllMessages
  Frames <- MCFrames
  MaxFrames = 1
SPECIFICATION Spec
INVARIANT
  FieldsMatch

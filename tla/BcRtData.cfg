\* The rings as they are; the words wrap after 20 blocks; one block may get lost.
SPECIFICATION Spec
CONSTANTS
  NFrames = 8
  Blocks = 20
  MaxLost = 1
INVARIANTS TypeOK EchoedInFrame NoSyncErr RtInStep
PROPERTIES Settles

\* Two blocks are lost.
SPECIFICATION Spec
CONSTANTS
  NFrames = 8
  Blocks = 20
  MaxLost = 2
PROPERTIES Settles

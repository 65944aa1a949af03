SPECIFICATION FairSpec
CONSTANTS
  MinCapacity = 2
  Ratio = 2
  MaxInput = 3
  BufferLen = 2
  Modulus = 16
  MaxLen = 4
  MaxOutput = 12
INVARIANT TypeOK
INVARIANT RoomForTerminator
INVARIANT ReturnsTheOutput
INVARIANT WholeStreamIsTaken
PROPERTY CallEnds
CHECK_DEADLOCK FALSE

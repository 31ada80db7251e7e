\* Each sample in bounds of its own; see README.md.
SPECIFICATION SamplesSpec
CONSTANTS
  \* log server: two words in an answer at most, in pieces of any size
  HdrLen = 2  WordLen = 2  MaxTake = 2  MaxTaken = 3
  \* OCCAN demo
  RX_LEN = 3  TX_LEN = 2  TestMsgs = 4  StopRound = 1  MaxRound = 2
  \* CAN loop-back
  LoopChans = {c1, c2}  CANTSK_RX_LEN = 1  CANTSK_TX_LEN = 2  ReadMax = 2  MaxCome = 3
  \* GRCAN demos
  GrTxLen = 2  GrRxLen = 2  GrReadMax = 2  MaxGrSent = 9  MaxDrops = 2
  CoreClocks <- Clocks
  \* BRM demos
  MaxRound1553 = 2  MaxFaults = 1  BmLen = 2
  \* B1553RT demo: subaddresses and mode codes of both kinds
  RtDescs = {1, 33, 65, 72, 83, 81, 64, 128, 84}  MaxRtMsgs = 3
  MaxPackets = 4  MaxPolls = 2
  DevStart = 2  SectorCount = 3  SectorSize = 2  MaxCalls = 2
  SemATries = 3  SemBTries = 2  TaskTries = 2  SleepTicks = 3  MaxLag = 2
  LevelStops = 2
  MaxConversions = 6  MaxSpurious = 2
  AdChannels = 4  MaxReads = 6
  PktSize = 5  ByteValues = 4  SpwRing = 5  MaxTxPkts = 8  MaxLost = 5
  PktLen = 14  ReadLen = 13  LinkRoom = 1  MaxWrites = 11
INVARIANTS SamplesTypeOK FileRight EchoesOwn BrmEchoed CucPackets FlashRight GpioQuiet DemosRight
PROPERTIES Answered TaskAWoken LinksUp
\* the samples stop at their bounds
CHECK_DEADLOCK FALSE

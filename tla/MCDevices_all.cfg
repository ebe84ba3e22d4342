SPECIFICATION Spec
CONSTANTS
  RINGMAX = 4
  UsbBudgets <- UsbBudgetsDef
  UsbEvents = 2
  PinBudgets <- PinBudgetsDef
  PinRing = 2
  UartRanges <- UartRangesDef
  FsNames = {"f"}
  FsFds = 3
  FsCalls = 5
  FsLengths = {0, 1}
  IdeBuffers = 2
  IdeNames = {"a", "b"}
  IdeCommands <- IdeCommandsDef
  IdePackets = 3
  TtLine = 2
  TtTyped = 6
  TlMax = 4
  TlKeys = 7
  Byte = 2
  BufContents <- BufContentsDef
  BufOffsets = {0, 1, 3, 15}
  BufValues <- BufValuesDef
  BufCalls = 3
INVARIANTS
  UsbDelivers
  PinsAreHeard
  FilesHold
  FilesAreAsSent
  TerminalIsFaithful
  BuffersHold
PROPERTIES
  HostIsAnswered

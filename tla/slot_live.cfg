SPECIFICATION LiveSpec
CONSTANTS
  MaxOperations = 1
  MaxRetained = 2
  MaxWriteFrames = 2
  MaxWriteRetained = 2
  FirstKey = 0
  LastKey = 1
  MaxIdentity = 1
  OperationSeed = 1
  EffectSeed = 1
  Horizon = 2
  Moments = {0, 1, 2}
  Options <- SlotOptions
  WireLengths = {1}
  RequestedReasons = {"Requested"}
  DrainDeadlines = {2}
  ConnectDeadline = 2
  IoOperations = 1
  IoChunk = 1
  LifecycleEvents = 4
  DecoderBytes = 1
  Replies <- LiveReplies
  DecoderFaults = {}
  ReplyBytes = 1
  LocalWork = TRUE
  TransportFaults = {}
PROPERTIES
  CloseSettles
  WritesServed

SPECIFICATION Spec
CONSTANTS
  MaxOperations = 1
  MaxRetained = 2
  MaxWriteFrames = 2
  MaxWriteRetained = 2
  FirstKey = 0
  LastKey = 1
  MaxIdentity = 2
  OperationSeed = 1
  EffectSeed = 1
  Horizon = 2
  Moments = {0, 1, 2}
  Options <- SlotOptions
  WireLengths = {0, 1}
  RequestedReasons = {"Requested"}
  DrainDeadlines = {2}
  ConnectDeadline = 2
  IoOperations = 1
  IoChunk = 1
  LifecycleEvents = 4
  DecoderBytes = 1
  Replies <- SlotReplies
  DecoderFaults = {"Error", "Retained"}
  ReplyBytes = 1
  LocalWork = FALSE
  TransportFaults = {}
CHECK_DEADLOCK FALSE
INVARIANTS
  SlotInv
  FailsOnlyWhenBroken
PROPERTIES
  NoLostWakeup
  ExpiredBeforeClose

SPECIFICATION Spec
CONSTANTS
  MaxOperations = 1
  MaxRetained = 2
  MaxWriteFrames = 2
  MaxWriteRetained = 2
  FirstKey = 0
  LastKey = 1
  MaxIdentity = 1
  OperationSeed = 1
  EffectSeed = 1
  Horizon = 1
  Moments = {0, 1}
  Options <- SlotOptions
  WireLengths = {1}
  RequestedReasons = {"Requested"}
  DrainDeadlines = {1}
  ConnectDeadline = 1
  IoOperations = 1
  IoChunk = 1
  LifecycleEvents = 1
  DecoderBytes = 1
  Replies <- LiveReplies
  DecoderFaults = {}
  ReplyBytes = 1
  LocalWork = TRUE
  TransportFaults = {"Pressure", "Progress", "OpenEarly", "OverRead", "OverWrite"}
CHECK_DEADLOCK FALSE
INVARIANTS
  OneFatePerCommit
  EventsGapless
PROPERTIES
  KeepsContract

SPECIFICATION PeerSpec
CONSTANTS
  MaxOperations = 3
  MaxRetained = 3
  MaxWriteFrames = 2
  MaxWriteRetained = 2
  FirstKey = 0
  LastKey = 1
  MaxIdentity = 4
  OperationSeed = 2
  EffectSeed = 1
  Moments = {0, 1}
  Options <- PeerOptions
  Frames <- PeerFrames
  RequestedReasons = {"TransportLost"}
  Payloads = {2, 3, 4}
  MaxReported = 2
  Misbehaviours = {}
  Faults = {}
  Builds = {"release"}
INVARIANTS
  ReplyReachesItsOperation
PROPERTIES
  KeepsLifecycle
  TombstonesCollected
  EveryOperationEnds

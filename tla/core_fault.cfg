SPECIFICATION Spec
CONSTANTS
  MaxOperations = 3
  MaxRetained = 4
  MaxWriteFrames = 3
  MaxWriteRetained = 3
  FirstKey = 0
  LastKey = 2
  MaxIdentity = 4
  OperationSeed = 1
  EffectSeed = 2
  Moments = {0, 1}
  Options <- SessionOptions
  Frames <- SessionFrames
  RequestedReasons = {"Requested"}
  Payloads = {0}
  MaxReported = 3
  Misbehaviours = {"OverReport"}
  Faults = {"LoseWrite", "StrayWrite"}
  Builds = {"debug", "release"}
INVARIANTS
  ExactlyOneFate
  RecoveryExact

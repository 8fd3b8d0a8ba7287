SPECIFICATION Spec
CONSTANTS
  MaxOperations = 3
  MaxRetained = 5
  MaxWriteFrames = 2
  MaxWriteRetained = 3
  FirstKey = 0
  LastKey = 2
  MaxIdentity = 4
  OperationSeed = 1
  EffectSeed = 2
  Moments = {0, 1}
  Options <- MCOptions
  Frames <- MCFrames
  RequestedReasons = {"Requested"}
  Payloads = {0}
  MaxReported = 2
  Misbehaviours = {"OverReport", "LengthChanged"}
  Faults = {}
  Builds = {"release"}
INVARIANTS
  TypeOK
  OnlyContractPoison
  OwnershipHolds
  AccountingExact
  DeliveryExact
  DeadlinesCovered
  DrainNeverIdles
PROPERTIES
  TornFrameStaysInFront

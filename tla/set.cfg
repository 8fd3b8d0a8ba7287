SPECIFICATION Spec
CONSTANTS
  Indices = {1, 2}
  MaxGeneration = 2
  MaxConnects = 2
  Identities <- OneIdentity
  CommandCapacity = 1
  CommandsPerTurn = 1
  ReadyPerTurn = 1
  CommandKinds = {"Close"}
  Flags = {"runnable", "due"}
  SetFaults = {"Selector", "Connector"}
CHECK_DEADLOCK FALSE
INVARIANTS
  ReadyExact
  RegistrationExact
  FailureFencesAll
  SleepsSafely
PROPERTIES
  CommandsFenced
  NoOvertaking

SPECIFICATION StandaloneLive
CONSTANTS
  Indices = {1}
  MaxGeneration = 1
  MaxConnects = 1
  Identities <- OneIdentity
  CommandCapacity = 1
  CommandsPerTurn = 1
  ReadyPerTurn = 1
  CommandKinds = {"Close", "Cancel"}
  Flags = {"runnable", "due", "synced"}
  SetFaults = {"Selector", "Pressure"}
CHECK_DEADLOCK FALSE
INVARIANTS
  StandaloneInv
PROPERTIES
  StandaloneStops

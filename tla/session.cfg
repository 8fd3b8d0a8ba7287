SPECIFICATION LiveSpec
CONSTANTS
  MaxEgress = 2
  MaxPlaintext = 2
  WriteBuffer = 3
  WriteRecords = 2
  IngressLimit = 2
  Versions <- BothVersions
  MaxWire = 2
  ClientRecords = 2
  ServerRecords = 1
  WireFaults <- AllFaults
CHECK_DEADLOCK FALSE
INVARIANTS
  SessionInv
PROPERTIES
  SessionProgress

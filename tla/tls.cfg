SPECIFICATION LiveSpec
CONSTANTS
  MaxInput = 1
  MaxRoom = 1
  MaxEgress = 1
  MaxPlaintext = 1
  WriteBuffer = 2
  WriteRecords = 2
  Versions <- BothVersions
  Keepalives <- WithKeepalive
  MaxWrites = 1
  RawUnits = 1
  PeerRecords <- AllRecords
CHECK_DEADLOCK FALSE
INVARIANTS
  TlsInv
PROPERTIES
  KeepsTransportContract
  TlsProgress

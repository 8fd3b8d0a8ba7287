SPECIFICATION LiveSpec
CONSTANTS
  MaxInput = 2
  MaxRoom = 2
  MaxWrites = 2
  Keepalives <- BothPolicies
CHECK_DEADLOCK FALSE
INVARIANTS
  TcpInv
PROPERTIES
  KeepsTransportContract
  TcpProgress

SPECIFICATION Spec
CONSTANTS
  Workers = {w1}
  Clients = {k1}
  BigEndian = FALSE
  BodyUnits = 2
PROPERTIES
  WorkerRegisters
CHECK_DEADLOCK FALSE

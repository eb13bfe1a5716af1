CONSTANTS
  Address <- Addresses3
  PortWord <- Ports3
  Remainder <- Remainders2
  Check <- Checks3
SPECIFICATION Spec
INVARIANTS
  TypeOK
  ErrorKept
  PresenceKept

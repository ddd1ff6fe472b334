CONSTANTS
  None = None
  Channels = {1, 2, 3}
  LastServer = 2
  MaxRetries = 3
  MaxNetFails = 1
SPECIFICATION RemoteSpec
INVARIANTS ConfiguredTransport
CHECK_DEADLOCK FALSE

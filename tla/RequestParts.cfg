CONSTANTS
  None = None
  Channels = {1, 2, 3}
  LastServer = 2
  MaxRetries = 3
  MaxNetFails = 1
  Handlers = {g1, h1, h2}
  GrpcWorkers = {g1}
  Images = {x, y}
  Candidates = {1, 2, 3}
  Boxes <- InferenceBoxes
  Scores = {20, 40, 60}
  Confidence = 35
  InputSize = 16
  ProtoSize = 4
  MaxEvents = 8
  Callers = {ta, tb}
  Addresses = {ip1, ip2}
  Flights = {r1}
SPECIFICATION RequestSpec
INVARIANTS FailsForAReason SidecarTypeOK OwnDetections Suppression MasksCropped AnsweredByOwn
PROPERTIES ServesTheLiving PhasesAdvance ClockAdvances
CHECK_DEADLOCK FALSE

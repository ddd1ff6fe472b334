CONSTANTS
  None = None
  Zones = {z1, z2}
  InstanceIds = {i1, i2}
  Discoveries = {d1}
  Setups = {s1}
  DeletesFail = TRUE
  MaxSamples = 4
  MaxTrouble = 3
  MaxPolls = 3
  Jobs = {j1}
  MaxJobPolls = 4
  MaxTries = 4
  MaxRestarts = 2
  Frames = {1, 2, 3}
  MaxKills = 3
  MaxSeq = 2
  HeaderSize = 2
  MaxBody = 2
SPECIFICATION FairSpec
INVARIANTS NothingLeaked ArrowsWork InOrder SavedAtStop LeavesNothing UpWhenLoaded ComputeTypeOK ComparesTheResult AbortsForAReason InFrame
PROPERTIES SetupEnds RadioRefreshes ProgramsEnd JobsEnd CompletedStays CameraShowsAll ContainerComesUp
CHECK_DEADLOCK FALSE

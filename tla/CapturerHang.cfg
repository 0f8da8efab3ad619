CONSTANTS
    Cameras = 2
    ZoomLevels = {0, 1, 2}
    Faults = {"opening"}
    Throws = TRUE
    MaxFailures = 3
    MaxFaults = 0
    MaxZooms = 0
SPECIFICATION FairSpec
PROPERTIES StopReturns
CHECK_DEADLOCK FALSE

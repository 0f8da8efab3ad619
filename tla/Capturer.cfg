CONSTANTS
    Cameras = 2
    ZoomLevels = {0, 1, 2}
    Faults = {"opening", "streaming"}
    Throws = TRUE
    MaxFailures = 1
    MaxFaults = 2
    MaxZooms = 2
SPECIFICATION FairSpec
INVARIANTS CapturerTypeOK NoOrphan OneCamera ZoomShown
PROPERTIES StopReturnsIfOpened VideoOrVerdict
CHECK_DEADLOCK FALSE

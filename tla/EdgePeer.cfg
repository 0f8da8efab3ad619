CONSTANTS
    Roles = {"observer", "glass-wearer"}
    IceServers <- MCIceServers
    RemoteCands = {"r"}
    VideoCodecs <- MCVideoCodecs
    EdgeVersion = 17134
    MaxTrickles = 1
SPECIFICATION Spec
INVARIANTS EdgeTypeOK LinesAgree ToldTheWorst NoCandidateLost
PROPERTY IsJsep
CHECK_DEADLOCK FALSE

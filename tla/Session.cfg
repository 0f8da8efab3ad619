CONSTANTS
    Wearers = {"phone", "page"}
    MaxSessions = 3
    MaxFaults = 1
    MaxReloads = 1
    MaxEvents = 1
SPECIFICATION FairSpec
INVARIANTS SessionTypeOK OneConnection PageCallIsMatched PhoneCallIsMatched
PROPERTY CallOrVerdict
CHECK_DEADLOCK FALSE

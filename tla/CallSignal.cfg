CONSTANTS
    Posted <- SignalPosted
    Overtaking <- SignalLate
    MaxQueue = 2
SPECIFICATION FairSpec
INVARIANTS TypeOK Purged RetryArmed ObserverBelieved
PROPERTY StopHonoured
CHECK_DEADLOCK FALSE

SPECIFICATION Spec
CONSTANTS
    MaxStarts = 2
    MaxHangUps = 1
    MaxVisits = 2
    MaxFailures = 1
INVARIANTS
    ServiceTypeOK
    StateIsShown
    NothingLingers
PROPERTIES
    KeptUnlessOverrun
CHECK_DEADLOCK FALSE

CONSTANTS
    c1 = c1
    c2 = c2
    c3 = c3
    Client = {c1, c2, c3}
    Name = {"lab_1", "dock2"}
    Spelling <- MCSpelling
    Canonical <- MCCanonical
    BadName = BadName
    Slot = {1, 2, 3, 4}
    Payload = {"sdp"}
    NoClient = NoClient
    NoRoom = NoRoom
SYMMETRY ClientSymmetry
SPECIFICATION Spec
INVARIANTS TypeOK Placed OnePlace WaitingBehindSeat RegisteredInUse PeerKnown
PROPERTIES NoEviction NoSilentRefusal

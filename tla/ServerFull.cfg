CONSTANTS
    c1 = c1
    c2 = c2
    Client = {c1, c2}
    Name = {"lab_1"}
    Spelling = {"lab_1"}
    Canonical <- MCCanonical
    BadName = BadName
    Slot = {1, 2, 3}
    Payload <- MCPayload
    NoClient = NoClient
    NoRoom = NoRoom
    QueueCap = 1
    AliveCap = 1
    SendCap = 1
    MaxSent <- OneTalker
    MsgTypes <- JoinsOffersAndPings
    WriteErrors <- Nobody
SPECIFICATION FairServerSpec
PROPERTY PingAnswered
CHECK_DEADLOCK FALSE

SPECIFICATION FairSpec
CONSTANTS
    Session = {s1}
    None = None
    Active = TRUE
    QueueCap = 1
    MaxReplies = 1
    StopRacesStart = TRUE
    PeerFrame = {"SelectReq", "SelectRspOk", "SelectRspRejected", "DeselectReq", "SeparateReq"}
    Sender = {p1}
    Noted = {}
INVARIANTS StatusTruthful
PROPERTIES ShutdownCompletes NewSessionResolves
\* A transport that has been shut down stops.
CHECK_DEADLOCK FALSE

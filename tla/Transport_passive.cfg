SPECIFICATION FairSpec
CONSTANTS
    Session = {s1}
    None = None
    Active = FALSE
    QueueCap = 1
    MaxReplies = 1
    StopRacesStart = FALSE
    PeerFrame = {"SelectReq", "DeselectReq", "Data", "Unsupported"}
    Sender = {p1}
    Noted = {"SelectRsp", "Primary"}
INVARIANTS TypeOK DataFollowsSelect
PROPERTIES ShutdownCompletes NewSessionResolves DeadSessionCleared
\* A transport that has been shut down stops.
CHECK_DEADLOCK FALSE

SPECIFICATION Spec
CONSTANTS
    Session = {s1, s2}
    None = None
    Active = FALSE
    QueueCap = 1
    MaxReplies = 1
    StopRacesStart = FALSE
    PeerFrame = {"SelectReq", "DeselectReq"}
    Sender = {}
    Noted = {}
SYMMETRY SymSession
INVARIANTS OneLiveSession Ownership StatusLagsAsListening
PROPERTY ImplementsHsmsSS
\* A transport that has been shut down stops.
CHECK_DEADLOCK FALSE

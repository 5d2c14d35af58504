\* One message of every kind and one after it, cut anywhere. The peer stops
\* writing, so the system may stop.
CONSTANTS
    Outgoing <- MCOutgoingAll
    Followers <- MCFollowers
    MaxSent = 2
    T8 = TRUE
    MaxDepth = 7
    MessageOf <- DecodeMessage
SPECIFICATION FairSpec
INVARIANTS
    MessagesArrive
    EchoIsFaithful
    TimeoutOnlyInsideFrame
PROPERTY StalledFrameEnds
CHECK_DEADLOCK FALSE

\* Two rules at first, and two events: requests of the operator and changes by others,
\* over a stream that breaks once. Nobody has to do anything: the system may come to rest.
CONSTANTS
    Streams = {1, 2}
    Contents <- MCContents
    Texts <- MCTexts
    Shortcuts <- MCShortcuts
    OthersDo <- MCOthersDo
    Cap = 1
    MaxEvents = 2
SPECIFICATION FairSpec
INVARIANTS
    StreamInOrder
    NoPhantomEdit
    EditHitsItsRule
PROPERTY ChangesArrive
CHECK_DEADLOCK FALSE

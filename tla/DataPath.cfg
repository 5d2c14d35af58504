\* Both scripts against equipment that may misanswer, one message of the peer's own
\* accord, an edit, a broken link or a wrong answer, and a stop at any time.
\* A stopped simulator may stop.
CONSTANTS
    SettingsSet <- MCSettings
    RuleLists <- MCRules
    Starts <- MCStarts
    Primaries <- MCPrimaries
    Unruly = TRUE
    Words = 64
    FirstWord = 61
    MaxPrimaries = 1
    MaxTroubles = 1
    MaxLinks = 2
SPECIFICATION FairSpec
INVARIANTS
    SentAsLogged
    OneAnswer
    OutstandingDistinct
PROPERTY ScriptFinishes
CHECK_DEADLOCK FALSE

\* One request in flight at a time, two transports, a script of three steps.
\* An active link without a script comes of a change of the settings.
CONSTANTS
    Callers = {c1}
    Transport = {t1, t2}
    Exits = {r1}
    Settings = {"passive", "scripted"}
    None = None
    LastStep = 2
    Silent = {1}
SPECIFICATION FairSpec
INVARIANTS
    TypeOK
    StoppedIsStopped
    RunningIsShown
    NoOverlap
    BootstrapInOrder
PROPERTY CallsReturn

\* Two requests in flight at once.
CONSTANTS
    Callers = {c1, c2}
    Transport = {t1, t2}
    Exits = {r1}
    Settings = {"passive", "active", "scripted"}
    None = None
    LastStep = 0
    Silent = {}
SPECIFICATION Spec
INVARIANT NoOverlap

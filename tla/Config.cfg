\* Creating, changing, copying, moving and deleting rules, with saves, reloads,
\* restarts, cleared logs, hand edits of the file and every change of the runtime
\* state between them.
SPECIFICATION Spec
INVARIANTS TypeOK FlagsExact RuleIdsDistinct CleanMatchesFile
CONSTANTS
  Conns = {"c1", "c2"}
  Tunings = {"t1"}
  Devices = {"d1"}
  Heads <- BlankOnly
  Kinds = {"send", "event"}
  Bodies = {"ok"}
  Payloads <- OneEvent
  ClientIds = {0}
  LateIds = {}
  NewHead <- Blank
  Seed <- SeedFile
  FileBacked = TRUE
  NoFile = NoFile
  Garbled = Garbled
  Unreadable = Unreadable
  Kept = Kept
  FirstFiles <- FreshDisk
  FileEdits <- HandEdits
  Statuses = {"SELECTED"}
  Errors = {""}
  MaxRules = 2
  MaxActions = 0
  MaxRuleID = 2
  MaxActionID = 2
  MaxCopies = 1

\* Nine actions of equal delay in one rule, and a tenth added: after a Save and a
\* Reload the tenth is the second, and the configuration is shown as clean.
SPECIFICATION Spec
INVARIANT CleanMatchesFile
CONSTANTS
  Conns = {"c1"}
  Tunings = {"t1"}
  Devices = {"d1"}
  Heads <- BlankOnly
  Kinds = {"send", "event"}
  Bodies = {"ok", "other"}
  Payloads <- TwoBodies
  ClientIds = {0}
  LateIds = {0}
  NewHead <- Blank
  Seed <- NineActions
  FileBacked = TRUE
  NoFile = NoFile
  Garbled = Garbled
  Unreadable = Unreadable
  Kept = Kept
  FirstFiles <- NineOnly
  FileEdits = {}
  Statuses = {"NOT CONNECTED"}
  Errors = {""}
  MaxRules = 1
  MaxActions = 10
  MaxRuleID = 1
  MaxActionID = 10
  MaxCopies = 0

\* A rule whose second action cannot be built: the tick fails on it, and the first
\* action is logged again on every tick.
SPECIFICATION StoreSpec
INVARIANT EmittedOnce
CONSTANTS
  Conns = {"c1"}
  Tunings = {"t1"}
  Devices = {"d1"}
  Heads <- BlankOnly
  NewHead <- Blank
  Kinds = {"send", "event", "mutate"}
  Bodies = {"ok", "unbalanced"}
  Payloads <- BadPayloads
  ClientIds = {}
  LateIds = {}
  Seed <- OneRule
  FileBacked = FALSE
  NoFile = NoFile
  Garbled = Garbled
  Unreadable = Unreadable
  Kept = Kept
  FirstFiles <- NoFiles
  FileEdits = {}
  Statuses = {"NOT CONNECTED"}
  Errors = {""}
  MaxRules = 1
  MaxActions = 2
  MaxRuleID = 1
  MaxActionID = 4
  MaxCopies = 0
  Inbound <- AtAndOff
  SeedMessages <- NoLog
  Lag = 1
  MaxInbound = 2
  MaxTime = 2
  MaxTickets = 4
  MaxMessageID = 12

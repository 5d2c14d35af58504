\* Inbound messages, ticks, stops, reloads, cleared logs and crashes in every order,
\* under a fair scheduler and clock.
SPECIFICATION FairStoreSpec
INVARIANTS MessageIdsDistinct EmittedOnce NoneLost DiscardedIsGone
PROPERTIES EmittedInOrder QueueDrains
CONSTANTS
  Conns = {"c1"}
  Tunings = {"t1"}
  Devices = {"d1"}
  Heads <- BlankOnly
  NewHead <- Blank
  Kinds = {"send", "event"}
  Bodies = {"ok"}
  Payloads <- NoPayloads
  ClientIds = {}
  LateIds = {}
  Seed <- LateRule
  FileBacked = FALSE
  NoFile = NoFile
  Garbled = Garbled
  Unreadable = Unreadable
  Kept = Kept
  FirstFiles <- NoFiles
  FileEdits = {}
  Statuses = {"NOT CONNECTED"}
  Errors = {""}
  MaxRules = 1
  MaxActions = 2
  MaxRuleID = 1
  MaxActionID = 4
  MaxCopies = 0
  Inbound <- AtAndOff
  SeedMessages <- DemoLog
  Lag = 1
  MaxInbound = 2
  MaxTime = 3
  MaxTickets = 2
  MaxMessageID = 9

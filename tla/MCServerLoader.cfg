SPECIFICATION Spec
CONSTANTS
  Root = Root
  Broken = Broken
  Gone = Gone
  NoHash = NoHash
  NoEntry = NoEntry
  NoRequest = NoRequest
  Locales <- OneLocale
  Pages = {"about", "index"}
  Links <- OneAlias
  Chain <- Alone
  Modes = {"premerged"}
  Versions = {0, 1}
  Requests = {r1}
  MaxEvictions = 1
  MaxEdits = 3
INVARIANTS TypeOK ServerIsFresh StorageIsFresh
PROPERTIES LastGoodEntryStays
CHECK_DEADLOCK FALSE

SPECIFICATION Spec
CONSTANTS
  Root = Root
  Broken = Broken
  Gone = Gone
  NoHash = NoHash
  NoEntry = NoEntry
  NoRequest = NoRequest
  Locales <- TwoLocales
  Pages = {"about"}
  Links <- NoAlias
  Chain <- EnglishFirst
  Modes = {"premerged"}
  Versions = {0, 1}
  Requests = {r1}
  MaxEvictions = 0
  MaxEdits = 3
PROPERTIES WatcherKeepsFallback
CHECK_DEADLOCK FALSE

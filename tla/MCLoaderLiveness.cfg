SPECIFICATION FairSpec
CONSTANTS
  NoContext = NoContext
  Absent = Absent
  NoDict = NoDict
  Leaves = {"title", "body"}
  FileLeaves <- AllLeaves
  Contexts <- TwoContexts
  Payloads <- NoPayload
  Patches = {{"title"}}
  CacheSizes = {0}
  MaxSwitches = 2
  MaxRegisters = 1
PROPERTIES SwitchesHappen

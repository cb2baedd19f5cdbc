SPECIFICATION Spec
CONSTANTS
  NoContext = NoContext
  Absent = Absent
  NoDict = NoDict
  Leaves = {"title", "body"}
  FileLeaves <- AllLeaves
  Contexts <- TwoContexts
  Payloads <- NoPayload
  Patches = {{"title"}, {"body"}}
  CacheSizes = {0}
  MaxSwitches = 1
  MaxRegisters = 2
PROPERTIES RegisterMergesIntoExisting

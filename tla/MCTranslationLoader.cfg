SPECIFICATION Spec
CONSTANTS
  NoContext = NoContext
  Absent = Absent
  NoDict = NoDict
  Leaves = {"title", "body"}
  FileLeaves <- AllLeaves
  Contexts <- ThreeContexts
  Payloads <- OnePayload
  Patches = {{"title"}}
  CacheSizes = {1, 2}
  MaxSwitches = 2
  MaxRegisters = 1
INVARIANTS TypeOK ChunkMapBounded NoLeakAcrossContexts ShownIsKept CallsAwaitLoads
PROPERTIES ActiveChunkStays PatchesSurvive

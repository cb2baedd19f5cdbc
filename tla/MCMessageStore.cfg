\* All three adapters, two calls in any order among renders, clones and loads.
CONSTANTS
  Locales = {"en", "de"}
  Routes = {"index", "page"}
  Keys <- MCKeys
  Watched <- ab
  Values <- MCValues
  Adapters = {"react", "astro", "node"}
  Requests = {r1}
  o1 = o1
  o2 = o2
  o3 = o3
  r1 = r1
  Given = {o1, o2, o3}
  Content <- MCContent
  MessageSets <- MCMessageSets
  Files <- MCFiles
  Segments = {"a", "b", "c", "d"}
  Nil = Nil
  None = None
  MaxWrites = 2
SPECIFICATION Spec
INVARIANTS
  TypeOK
  DumpAnswersLookups
  EntriesAreOwn
  RenderedIsCurrent
PROPERTIES
  SetReadsBack
  CallerObjectsStay
  PagesBakeRoot
CHECK_DEADLOCK FALSE

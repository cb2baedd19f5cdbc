SPECIFICATION Spec
CONSTANTS
  NoContext = NoContext
  Absent = Absent
  NoDict = NoDict
  NoNavigation = NoNavigation
  Locales <- TwoLocales
  Pages <- TwoPages
  Contexts <- AllContexts
  Leaves = {"shared", "home", "about"}
  FileLeaves <- PageLeaves
  DefaultLocale = "en"
  Strategies = {"prefix", "no_prefix", "hash"}
  MayAbort = TRUE
  MaxWaiting = 2
  MaxLeaving = 2
INVARIANTS TypeOK UndisturbedAgrees StateMatchesDictionary GuardIsAwaited
PROPERTIES PagesKeepStrings

SPECIFICATION Spec
CONSTANTS
  NoContext = NoContext
  Absent = Absent
  NoDict = NoDict
  NoNavigation = NoNavigation
  Locales <- TwoLocales
  Pages <- TwoPages
  Contexts <- AllContexts
  Leaves = {"shared", "home", "about"}
  FileLeaves <- PageLeaves
  DefaultLocale = "en"
  Strategies = {"prefix"}
  MayAbort = FALSE
  MaxWaiting = 2
  MaxLeaving = 2
PROPERTIES RestsOnCurrentPage

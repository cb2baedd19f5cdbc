SPECIFICATION Spec
CONSTANTS
  LocaleList <- Enabled
  DefaultLocale = "en"
  Pages = {"index", "about", "help"}
  Index = "index"
  Slugs <- PathsKnown
  NoLocale = NoLocale
  NoSlug = NoSlug
  NoPath = NoPath
  Configs <- SmallConfigs
  UnknownLocale = "xx"
  NoPage = NoPage
  NoTarget = NoTarget
  NoAim = NoAim
  Headers = {NoLocale}
  Queries = {NoLocale}
INVARIANTS
  DeepLinksShowDefault

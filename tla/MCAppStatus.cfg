SPECIFICATION MCSpec
CONSTANTS
  Inits = {i1, i2, i3}
  Controllers = {k1, k2}
  Names = {n1, n2}
  NoInit = NoInit
  Boots = {b1, b2}
  MaxCalls = 2
  SettingValues = {"js", "ts", "none"}
  Default = "js"
  NoValue = "unset"
  Actions = {"create"}
  DocNames <- DocSeq
  Statuses = {201, 422}
  Validates <- ValidatesFn
  RouteNames = {"posts", "authors"}
  OnlySets <- Only
  ExceptSets <- Except
  MaxDepth = 3
  MaxOpened = 3
  MaxCrud = 1
  Sent <- SentValues
  Paths <- PathSet
  OptSets <- OptSet
  Regexes <- RegexSet
  Columns <- ColumnSeq
  Metas <- MetaSet
  Elements <- ElementSet
PROPERTIES ResponseVerdictsExact
CHECK_DEADLOCK FALSE

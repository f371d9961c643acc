SPECIFICATION MCSpec
CONSTANTS
  Classes = {k1, k2, k3}
  Base = Base
  Actions = {"show", "create"}
  Declarations <- HookChoices
  Users = {u1, u2}
  Requests = {r1, r2}
  MaxVersion = 3
  NoUser = NoUser
  MiddlewareKinds = {"httpData", "httpBadData", "http500", "koa4xx", "recordNotFound", "foreign4xx", "null"}
  ActionKinds = {"http", "httpData", "httpBadData", "http500", "koa4xx", "recordNotFound", "foreign4xx", "null"}
  HookKinds = {"http500", "null", "plain"}
  RenderKinds = {"httpBadData", "http500", "koa4xx", "null", "plain"}
  NBefore = 1
  NHooks = 2
  MaxCalls = 2
  Calls <- CallSet
  InheritedCalls <- InheritedSet
  ShownIn = {"default", "mobile"}
  Defaults <- DefaultsFn
  Serializers <- SerializersFn
  Data <- DataSet
  Helpers <- HelperSet
  Symbols <- SymbolSet
  DocNames <- TwoDocs
  Legacy <- LegacyDocs
  Bodies <- BodySet
  Columns <- ModelColumnsFn
  ParamSafe <- ParamSafeFn
  EnumTypes <- EnumTypesFn
  PathApps <- PathAppSet
  PathDocs = {"default", "mobile"}
  DefaultHeaders <- DefaultHeadersFn
SYMMETRY Symmetry
INVARIANTS TypesOK EscalatedExactlyOnce FailuresAnswered ActionSeesValidParams
INVARIANTS HooksAsDeclared SessionSurvives ServedAsWhoLoggedIn RespondsAsDocumented ModelBodiesStable PathsAsDeclared

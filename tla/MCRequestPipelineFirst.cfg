SPECIFICATION PipelineSpec
CONSTANTS
  MiddlewareKinds = {"httpData", "httpBadData", "http500", "koa4xx", "recordNotFound", "foreign4xx", "null"}
  ActionKinds = {"http", "httpData", "httpBadData", "http500", "koa4xx", "recordNotFound", "foreign4xx", "null"}
  HookKinds = {"http500", "null", "plain"}
  RenderKinds = {"httpBadData", "http500", "koa4xx", "null", "plain"}
  NBefore = 1
  NHooks = 2
  MaxCalls = 2
PROPERTIES FirstResponseWins

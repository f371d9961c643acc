SPECIFICATION BodySpec
CONSTANTS
  DocNames <- TwoDocs
  Legacy <- LegacyDocs
  Bodies <- BodySet
  Columns <- ModelColumnsFn
  ParamSafe <- ParamSafeFn
  EnumTypes <- EnumTypesFn
INVARIANT EnumsFileComplete

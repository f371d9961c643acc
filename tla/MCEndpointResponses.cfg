SPECIFICATION ResponsesSpec
CONSTANTS
  Calls <- CallSet
  InheritedCalls <- InheritedSet
  ShownIn = {"default", "mobile"}
  Defaults <- DefaultsFn
  Serializers <- SerializersFn
  Data <- DataSet
  Helpers <- HelperSet
  Symbols <- SymbolSet
INVARIANTS OverridesRespondAsDocumented
CHECK_DEADLOCK FALSE

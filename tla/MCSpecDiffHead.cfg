SPECIFICATION DiffSpec
CONSTANTS
  Specs = {"d1", "d2"}
INVARIANTS HeadBranchDefaults

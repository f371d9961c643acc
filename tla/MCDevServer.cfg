SPECIFICATION MCSpec
CONSTANTS
  l1 = l1
  l2 = l2
  l3 = l3
  k1 = k1
  k2 = k2
  Launches = {l1, l2, l3}
  Keys = {k1, k2}
  key <- KeyOf
  None = None
  Timeout = 2
  Files = {"f1", "f2"}
  Settings = {"s1", "s2"}
  MaxTouches = 2
  Specs = {"d1", "d2"}
  Apps <- AppSet
  RoutesFiles <- FileSet
  Requests <- RequestSet
  MaxRuns = 2
  Scaffolds <- ScaffoldSet
  Hierarchies <- HierarchySet
  Directories <- DirectorySet
  Applications <- ApplicationSet
  LanguageOf <- LanguageOfFn
  Depth = 2
  Paths <- PathSet
  Interpolations <- InterpolationSet
PROPERTIES LaunchSettles DeclaresOnlyItsResource
INVARIANTS TypesOK NoOrphans WritesAsAgreed GateIsConclusive ComponentsSound GeneratedRoutesServed GeneratedSpecsPass TreeShowsWhatIsChecked UnreportedPathsTranslate

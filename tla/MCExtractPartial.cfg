SPECIFICATION Spec
CONSTANTS
  c1 = c1  c2 = c2  c3 = c3  c4 = c4
  Callers = {c1, c2}
  Policies = {"x", "y"}
  Dirs = {"d", "e"}
  Nobody = Nobody  NoExtractor = NoExtractor
  PolicyOf <- TwoCallers
  DirOf <- OneDir
  Extractors <- OnlyUnpack
  Failing = {}
  Crashers = {}
INVARIANT OkMeansComplete

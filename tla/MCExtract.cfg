SPECIFICATION FairSpec
CONSTANTS
  c1 = c1  c2 = c2  c3 = c3  c4 = c4
  Callers = {c1, c2, c3, c4}
  Policies = {"x", "y"}
  Dirs = {"d", "e"}
  Nobody = Nobody  NoExtractor = NoExtractor
  PolicyOf <- FourCallers
  DirOf <- TwoDirs
  Extractors <- AllKinds
  Failing <- AnyStep
  Crashers = {"x"}
INVARIANTS PolicyInv ReadyOrAborted OkUnlessLeft CompleteInv NoDeadlock
PROPERTIES DecidedOnce CallsForward CallsReturn

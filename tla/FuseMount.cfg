SPECIFICATION FairSpec
INVARIANTS FuseInv OkWasServed ErrorLeavesNoServer
PROPERTIES FuseReturns ChildIsHeard

SPECIFICATION VerifySpec
CONSTANTS
  p1 = p1  p2 = p2  p3 = p3  p4 = p4
  L1 = L1  L2 = L2  L3 = L3
  Procs = {p1, p2, p3}
  Loops = {L1, L2}
  Namespaces = {"ns1", "ns2"}
  Hashes = {"h1", "h2"}
  LockDirs = {"/tmp"}
  NoHash = NoHash  NoLoop = NoLoop  NoAtom = NoAtom  NoDir = NoDir
  NoDevice = NoDevice  Stray = Stray  Off = Off
  Targets <- MCTargets  MetaDirs <- MCMetaDirs  MetaOf <- MCMetaOf
  Atoms <- MCAtoms  Images <- MCImages  Layers <- MCLayers
  RootHash <- MCRootHash  BlobHash <- MCBlobHash
  NsOf <- TwoNamespaces
  LockDirOf <- OneLock
  Cmds <- VerifyCmds
  Tampered = {"app"}  Erofs = {"ero"}  Unsupported = {}
  HostRoot = {p1, p2, p3}
  Failing = {"deactivate"}  Crashers = {}
  SerialMounts = TRUE
  MaxRetries = 5
INVARIANTS VerifyFindsCorruption NoFalseAlarm VerifyInv
PROPERTIES StepsForward Termination

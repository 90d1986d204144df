SPECIFICATION Spec
CONSTANTS
  p1 = p1  p2 = p2  p3 = p3  p4 = p4
  L1 = L1  L2 = L2  L3 = L3
  Procs = {p1, p2, p3, p4}
  Loops = {L1, L2, L3}
  Namespaces = {"ns1", "ns2"}
  Hashes = {"h1", "h2"}
  LockDirs = {"/tmp"}
  NoHash = NoHash  NoLoop = NoLoop  NoAtom = NoAtom  NoDir = NoDir
  NoDevice = NoDevice  Stray = Stray  Off = Off
  Targets <- MCTargets  MetaDirs <- MCMetaDirs  MetaOf <- MCMetaOf
  Atoms <- MCAtoms  Images <- MCImages  Layers <- MCLayers
  RootHash <- MCRootHash  BlobHash <- MCBlobHash
  NsOf <- TwoNamespaces
  LockDirOf <- NoCommonLock
  Cmds <- ShareCmds
  Tampered = {}  Unsupported = {}
  HostRoot = {p1, p2, p3, p4}
  Failing <- AllSteps  Crashers = {p1, p3}
  SerialMounts = TRUE
  MaxRetries = 2
SYMMETRY Symmetric
INVARIANTS LiveMoleculeIntact LiveMoleculeKeepsMeta

SPECIFICATION ImageSpec
CONSTANTS
  diff = diff  base = base  extra = extra
  n1 = n1  n2 = n2  n3 = n3  n4 = n4
  first = first  second = second
  Names = {"usr", "bin", "usr2"}
  Tree <- MCTree  Dirs <- MCDirs  NameStarts <- MCNameStarts
  Builders = {diff, base, extra}
  Walker = diff
  Kind <- MCKind  Used <- MCUsed
  WantVerity = {diff, base}
  PageSize = 4096
  ListNames = {n4}  ImageNames <- MCImageNames
  NoFile = NoFile  NoName = NoName  NoRoot = NoRoot  NoSuperblock = NoSuperblock
  Publishers = {first, second}
  AddLayers <- MCAddLayers
  Readers = {"mount"}
  NoManifest = NoManifest
SYMMETRY Symmetric
CHECK_DEADLOCK FALSE
INVARIANTS IncludedKept ExcludedDropped TempFilesRemoved BlobIsOwn ReturnedBlobMounts TagResolves MoleculeTopFirst

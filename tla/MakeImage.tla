------------------------------ MODULE MakeImage ------------------------------
(***************************************************************************)
(* The building of layer blobs: MakeSquashfs, MakeErofs and the            *)
(* AppendVerityData they share, run by several builders that use one       *)
(* directory for temporary files; and what VerityHostMount, when it mounts *)
(* a blob later, concludes from the blob's superblock and size about the   *)
(* place and the presence of the verity data.                              *)
(*                                                                         *)
(* A file is what matters of its content: whose trees are in it, the bytes *)
(* the superblock counts, the size, and of the verity data where it was    *)
(* appended, how many bytes it covers and for which content.               *)
(***************************************************************************)
EXTENDS ExcludePaths

CONSTANTS
  Builders,     \* calls of Make
  Walker,       \* the one with an ExcludePaths; eps is nil for the others
  Kind,         \* Kind[b]: "squashfs" or "erofs"
  WantVerity,   \* the builders that ask for verity data
  Used,         \* Used[b]: bytes of the filesystem made of b's tree
  PageSize,     \* os.Getpagesize()
  ListNames,    \* the names os.CreateTemp may draw for the list
  ImageNames,   \* ImageNames[b]: those it may draw for b's image
  NoFile, NoName, NoRoot, NoSuperblock

FileNames == ListNames \cup UNION {ImageNames[b] : b \in Builders}

ASSUME BuildAssumption ==
  /\ Kind \in [Builders -> {"squashfs", "erofs"}]
  /\ WantVerity \subseteq Builders
  /\ Used \in [Builders -> Nat \ {0}]
  /\ PageSize \in Nat \ {0} /\ PageSize % 512 = 0
  /\ Walker \in Builders
  /\ \A b \in Builders : ListNames \cap ImageNames[b] = {}
  /\ NoName \notin FileNames

VARIABLES
  bpc,      \* bpc[b]: the step builder b is about to take
  list,     \* list[b]: name of its file of excluded paths
  img,      \* img[b]: name of its image file
  blob,     \* blob[b]: the file it returned
  root,     \* root[b]: the root hash it returned
  temp,     \* the temporary directory
  clash     \* history: the builders whose image's name two of them had at
            \* once, the later one having drawn it while no such file was there

buildVars == <<bpc, list, img, blob, root, temp, clash>>

NoVerity == [at |-> 0, covered |-> 0, hash |-> NoRoot]

(* A file just created, and the file of excluded paths.                    *)
TextFile(paths) == [kind |-> "text", from |-> {}, paths |-> paths, used |-> 0,
                    block |-> 1, size |-> 0, verity |-> NoVerity]

Returned == {"ok", "err"}

RoundUp(n, unit) == unit * ((n + unit - 1) \div unit)

-----------------------------------------------------------------------------
(* The blob as VerityHostMount sees it.                                    *)

(* parseSuperblock of pkg/squashfs and pkg/erofs: the fields that are used *)
(* of a file that begins with the magic number and version, here of one    *)
(* that mksquashfs or mkfs.erofs wrote.  The second is refused when its    *)
(* blocks are not whole pages.                                             *)
SquashSuperblock(f) ==
  IF f.kind = "squashfs" THEN [size |-> f.used] ELSE NoSuperblock

ErofsSuperblock(f) ==
  IF f.kind = "erofs" /\ f.block % PageSize = 0
  THEN [blocks |-> RoundUp(f.used, f.block) \div f.block, blockSize |-> f.block]
  ELSE NoSuperblock

(* A mistake: the end of the data is not rounded up.                       *)
SquashLocationUnpadded(sb) == sb.size

(* verityDataLocation.  A file that exists is far too small for either to  *)
(* overflow 64 bits.                                                       *)
SquashLocation(sb) ==
  IF sb.size % 4096 = 0 THEN sb.size ELSE sb.size + (4096 - (sb.size % 4096))

ErofsLocation(sb) == sb.blocks * sb.blockSize

(* What the hash tree in the verity data stands for.                       *)
Contents(f) == [kind |-> f.kind, from |-> f.from, paths |-> f.paths]

(* Whether the host mount of the blob f, taken for a filesystem fs, with   *)
(* root hash h goes through a device or a loop device, or is refused.  A   *)
(* device gives the bytes that the hash tree covers, and only under the    *)
(* right root hash.                                                        *)
HostMount(f, fs, h) ==
  LET sb     == IF fs = "squashfs" THEN SquashSuperblock(f) ELSE ErofsSuperblock(f)
      offset == IF fs = "squashfs" THEN SquashLocation(sb) ELSE ErofsLocation(sb)
  IN CASE sb = NoSuperblock -> "bad superblock"
       [] sb # NoSuperblock /\ offset = f.size /\ h # NoRoot -> "no data present"
       [] sb # NoSuperblock /\ offset # f.size /\ h = NoRoot -> "no root hash specified"
       [] sb # NoSuperblock /\ offset = f.size /\ h = NoRoot -> "loop"
       [] OTHER -> IF offset = f.verity.at /\ h = f.verity.hash /\ f.used <= f.verity.covered
                   THEN "device" ELSE "bad device"

-----------------------------------------------------------------------------
(* MakeSquashfs, MakeErofs.                                                *)

(* The steps in which a builder uses the name of its image file.           *)
Making == {"remove", "mkfs", "appendVerity", "open"}

(* A mistake: os.CreateTemp opens what is there.                           *)
AnyName(n) == n \in FileNames

(* os.CreateTemp draws a random name until it creates a file that did not  *)
(* exist; a name the code has removed the file of is not there either.     *)
Free(n) == temp[n] = NoFile

(* The builders whose image n is to be.                                    *)
Users(n) == {c \in Builders : img[c] = n /\ bpc[c] \in Making}

BGoto(b, step) == bpc' = [bpc EXCEPT ![b] = step]

(* A mistake: the deferred removal of the image file is missing.           *)
ReturnKeepsImage(b, result) ==
  /\ BGoto(b, result)
  /\ temp' = [n \in FileNames |-> IF n = list[b] THEN NoFile ELSE temp[n]]

(* The deferred calls of os.Remove for the files b has created.            *)
Return(b, result) ==
  /\ BGoto(b, result)
  /\ temp' = [n \in FileNames |-> IF n \in {list[b], img[b]} THEN NoFile ELSE temp[n]]

(* eps.String() and the file for -ef / --exclude-path.  The text is never  *)
(* empty, so the file is written for any eps that is not nil.              *)
WriteExcludes(b) ==
  /\ bpc[b] = "start"
  /\ IF b = Walker
     THEN \E n \in {x \in ListNames : Free(x)} :
            /\ temp' = [temp EXCEPT ![n] = TextFile(exclude)]
            /\ list' = [list EXCEPT ![b] = n]
     ELSE UNCHANGED <<temp, list>>
  /\ BGoto(b, "createTemp")
  /\ UNCHANGED <<img, blob, root, clash>>

CreateTemp(b) ==
  /\ bpc[b] = "createTemp"
  /\ \E n \in {x \in ImageNames[b] : Free(x)} :
       /\ temp' = [temp EXCEPT ![n] = TextFile({})]
       /\ img' = [img EXCEPT ![b] = n]
       /\ clash' = IF temp[n] = NoFile /\ Users(n) # {}
                   THEN clash \cup Users(n) \cup {b} ELSE clash
  /\ BGoto(b, "remove")
  /\ UNCHANGED <<list, blob, root>>

(* The file goes, its name is kept for mkfs: from here another call can    *)
(* draw it.                                                                *)
RemoveTemp(b) ==
  /\ bpc[b] = "remove"
  /\ temp' = [temp EXCEPT ![img[b]] = NoFile]
  /\ BGoto(b, "mkfs")
  /\ UNCHANGED <<list, img, blob, root, clash>>

(* mksquashfs adds to a filesystem it finds and refuses another file,      *)
(* mkfs.erofs replaces both.  The first pads its output to 4096 bytes, the *)
(* second to its block, a page.                                            *)
Mkfs(b) ==
  LET kept == IF b = Walker
              THEN {p \in Tree : ~Dropped(temp[list[b]].paths, p)} ELSE Tree
      old  == temp[img[b]]
      adds == Kind[b] = "squashfs" /\ old # NoFile /\ old.kind = "squashfs"
      unit == IF Kind[b] = "squashfs" THEN 4096 ELSE PageSize
  IN /\ bpc[b] = "mkfs"
     /\ b = Walker => temp[list[b]] # NoFile
     /\ Kind[b] = "squashfs" /\ old # NoFile => adds
     /\ temp' = [temp EXCEPT ![img[b]] =
          [kind |-> Kind[b],
           from |-> {b} \cup IF adds THEN old.from ELSE {},
           paths |-> kept \cup IF adds THEN old.paths ELSE {},
           used |-> Used[b], block |-> unit, size |-> RoundUp(Used[b], unit),
           verity |-> NoVerity]]
     /\ BGoto(b, IF b \in WantVerity THEN "appendVerity" ELSE "open")
     /\ UNCHANGED <<list, img, blob, root, clash>>

(* AppendVerityData and the parameters of verityDeviceType.Unmanaged: the  *)
(* hash tree is put where the file ends and is made of whole pages.        *)
AppendVerityData(b) ==
  LET f == temp[img[b]]
  IN /\ bpc[b] = "appendVerity"
     /\ f # NoFile /\ f.size % 512 = 0
     /\ temp' = [temp EXCEPT ![img[b]] =
          [f EXCEPT !.size = @ + 2 * PageSize,
                    !.verity = [at |-> f.size, hash |-> Contents(f),
                                covered |-> PageSize * (f.size \div PageSize)]]]
     /\ root' = [root EXCEPT ![b] = Contents(f)]
     /\ BGoto(b, "open")
     /\ UNCHANGED <<list, img, blob, clash>>

(* The blob stays readable after its name is removed.                      *)
Open(b) ==
  /\ bpc[b] = "open"
  /\ temp[img[b]] # NoFile
  /\ blob' = [blob EXCEPT ![b] = temp[img[b]]]
  /\ Return(b, "ok")
  /\ UNCHANGED <<list, img, root, clash>>

(* Any of the steps fails, mkfs or Format having written a part or not.    *)
StepFails(b) ==
  /\ bpc[b] \in {"start", "createTemp", "mkfs", "appendVerity", "open"}
  /\ bpc[b] = "start" => b = Walker
  /\ root' = [root EXCEPT ![b] = NoRoot]
  /\ Return(b, "err")
  /\ UNCHANGED <<list, img, blob, clash>>

Kill(b) ==
  /\ bpc[b] \notin Returned \cup {"start", "dead"}
  /\ BGoto(b, "dead")
  /\ UNCHANGED <<list, img, blob, root, temp, clash>>

BuildInit ==
  /\ ExcludeInit
  /\ bpc = [b \in Builders |-> "start"]
  /\ list = [b \in Builders |-> NoName]
  /\ img = [b \in Builders |-> NoName]
  /\ blob = [b \in Builders |-> NoFile]
  /\ root = [b \in Builders |-> NoRoot]
  /\ temp = [n \in FileNames |-> NoFile]
  /\ clash = {}

Make(b) ==
  \/ WriteExcludes(b) \/ CreateTemp(b) \/ RemoveTemp(b) \/ Mkfs(b)
  \/ AppendVerityData(b) \/ Open(b) \/ StepFails(b) \/ Kill(b)

(* The caller of the Walker names paths until it calls Make.               *)
BuildNext ==
  \/ bpc[Walker] = "start" /\ Walk /\ UNCHANGED buildVars
  \/ (\E b \in Builders : Make(b)) /\ UNCHANGED excludeVars

-----------------------------------------------------------------------------
(* When a call has returned, with or without an error, none of its files   *)
(* is left: what is in the directory belongs to a call that still runs or  *)
(* was killed (the deferred calls of squashfs.go:57,83 and erofs.go:56,82, *)
(* on every early return).                                                 *)
TempFilesRemoved ==
  \A n \in FileNames : temp[n] # NoFile =>
    \E b \in Builders : bpc[b] \notin Returned /\ n \in {list[b], img[b]}

(* Returned blobs are not mixed up: each is of this call's tree, of all of *)
(* it but what was excluded, and of no other's.  The exception is the      *)
(* "TOCTOU" of squashfs.go:76-78 (and erofs.go:75-77): another call drew   *)
(* the name between the removal of the temporary file and mkfs, when it    *)
(* belongs to nobody.  At any other time one of the files of the two is    *)
(* there, and os.CreateTemp draws another.                                 *)
BlobIsOwn ==
  \A b \in Builders \ clash : bpc[b] = "ok" =>
    /\ blob[b].from = {b}
    /\ blob[b].kind = Kind[b]
    /\ blob[b].paths = IF b = Walker THEN {p \in Tree : ~Dropped(exclude, p)} ELSE Tree

(* What Make returned is mountable with the root hash it returned, through *)
(* a device if verity was asked for, and otherwise without: what           *)
(* AppendVerityData takes from the size of the file (verity.go:150) is     *)
(* what verityDataLocation later takes from the superblock, and all of the *)
(* filesystem is covered.  A call whose name was drawn twice is excepted.  *)
ReturnedBlobMounts ==
  \A b \in Builders \ clash : bpc[b] = "ok" =>
    HostMount(blob[b], Kind[b], root[b]) = IF b \in WantVerity THEN "device" ELSE "loop"

-----------------------------------------------------------------------------
(* An invariant that implies the three.  A call has no files before it     *)
(* creates them, the list it wrote is still that of its ExcludePaths when  *)
(* mkfs reads it, and unless its name was drawn twice nobody else uses the *)
(* name of its image, no file is in the way of mkfs, and what mkfs made is *)
(* what was asked for.                                                     *)
OwnName(b) ==
  /\ bpc[b] \in Making => \A c \in Builders \ {b} : img[c] = img[b] => bpc[c] \notin Making
  /\ bpc[b] = "mkfs" => temp[img[b]] = NoFile

NamesInv ==
  \A b \in Builders :
    /\ list[b] # NoName => b = Walker /\ list[b] \in ListNames
    /\ img[b] # NoName => img[b] \in ImageNames[b]
    /\ bpc[b] = "start" => list[b] = NoName
    /\ bpc[b] \in {"start", "createTemp"} => img[b] = NoName
    /\ bpc[b] \in Making => img[b] # NoName
    /\ b = Walker /\ bpc[b] \in {"createTemp", "remove", "mkfs"} =>
         list[b] # NoName /\ temp[list[b]] = TextFile(exclude)
    /\ b \notin clash => OwnName(b)

Wanted(b) == IF b = Walker THEN {p \in Tree : ~Dropped(exclude, p)} ELSE Tree

Unit(b) == IF Kind[b] = "squashfs" THEN 4096 ELSE PageSize

Plain(b) ==
  [kind |-> Kind[b], from |-> {b}, paths |-> Wanted(b), used |-> Used[b],
   block |-> Unit(b), size |-> RoundUp(Used[b], Unit(b)), verity |-> NoVerity]

Signed(b) ==
  LET f == Plain(b)
  IN [f EXCEPT !.size = @ + 2 * PageSize,
               !.verity = [at |-> f.size, hash |-> Contents(f),
                           covered |-> PageSize * (f.size \div PageSize)]]

Made(b) == IF b \in WantVerity THEN Signed(b) ELSE Plain(b)
Hash(b) == IF b \in WantVerity THEN Contents(Plain(b)) ELSE NoRoot

MadeInv ==
  \A b \in Builders :
    /\ bpc[b] \in {"start", "createTemp", "remove", "mkfs", "appendVerity"}
         => root[b] = NoRoot
    /\ bpc[b] = "appendVerity" => b \in WantVerity
    /\ b \notin clash =>
         /\ bpc[b] = "appendVerity" => temp[img[b]] = Plain(b)
         /\ bpc[b] = "open" => temp[img[b]] = Made(b) /\ root[b] = Hash(b)
         /\ bpc[b] = "ok" => blob[b] = Made(b) /\ root[b] = Hash(b)

BuildTypes ==
  /\ bpc \in [Builders -> {"start", "createTemp", "remove", "mkfs", "appendVerity",
                           "open", "ok", "err", "dead"}]
  /\ list \in [Builders -> FileNames \cup {NoName}]
  /\ img \in [Builders -> FileNames \cup {NoName}]
  /\ DOMAIN blob = Builders /\ DOMAIN root = Builders
  /\ DOMAIN temp = FileNames
  /\ clash \subseteq Builders

BuildInv == BuildTypes /\ NamesInv /\ MadeInv /\ TempFilesRemoved
=============================================================================

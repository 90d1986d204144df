------------------------------- MODULE World -------------------------------
(***************************************************************************)
(* What the invocations of atomfs run in: the commands they were given,    *)
(* the images, the file system that holds the metadata directories and the *)
(* advisory lock files, and the kernel objects (device mapper devices,     *)
(* loop devices, mounts and overlays) they all share.                      *)
(*                                                                         *)
(* An invocation p is one process running `atomfs mount` or                *)
(* `atomfs umount` once.  pc[p] names the system call or the function it   *)
(* is about to execute; the names are those of the source.                 *)
(***************************************************************************)
EXTENDS Integers, Sequences, FiniteSets, SequencesExt

CONSTANTS
  Procs,         \* the invocations
  Targets,       \* mount points (`dest`)
  MetaDirs,      \* metadata directories, /run/atomfs/meta/<mount ns>/<target>
  Namespaces,    \* mount namespaces
  Atoms,         \* squashfs / erofs layer blobs, named by their digest
  Images,
  Hashes,        \* dm-verity root hashes
  Loops,         \* loop devices
  LockDirs,      \* directories $TMPDIR may name, for .atomfs-lock
  NoHash, NoLoop, NoAtom, NoDir, NoDevice,
  Stray          \* a lower directory path that is not a mountpoint

CONSTANTS
  MetaOf,        \* MetaOf[t]: metadata directory of target t (not injective)
  NsOf,          \* NsOf[m]: the mount namespace whose name m carries
  LockDirOf,     \* LockDirOf[p]: where p can create .atomfs-lock, or NoDir
  Layers,        \* Layers[i]: atoms of image i, top-most first
  RootHash,      \* RootHash[i][a]: root hash annotated on layer a of image i
  BlobHash,      \* BlobHash[a]: root hash of the verity data in the blob a
  Tampered,      \* atoms whose data does not match the verity data
  Unsupported,   \* atoms of an unknown media type
  HostRoot,      \* the invocations that run as root of the host
  Cmds,          \* Cmds[p]: commands p may be given
  Failing,       \* steps whose system call may fail for an outside reason
  Crashers,      \* invocations that may be killed
  SerialMounts,  \* callers run one mount at a time per metadata directory
  MaxRetries     \* retryIfBusy's maxRetries

MountCmd == [op : {"mount"}, target : Targets, image : Images,
             allow : BOOLEAN,               \* --allow-missing-verity
             over : {"ro", "rw", "stray"}]  \* see OverlayLower
UmountCmd == [op : {"umount"}, target : Targets]

ASSUME WorldAssumption ==
  /\ MetaOf \in [Targets -> MetaDirs]
  /\ NsOf \in [MetaDirs -> Namespaces]
  /\ LockDirOf \in [Procs -> LockDirs \cup {NoDir}]
  /\ Layers \in [Images -> Seq(Atoms) \ {<< >>}]
  /\ RootHash \in [Images -> [Atoms -> Hashes \cup {NoHash}]]
  /\ BlobHash \in [Atoms -> Hashes \cup {NoHash}]
  /\ Tampered \subseteq Atoms /\ Unsupported \subseteq Atoms
  /\ HostRoot \subseteq Procs /\ Crashers \subseteq Procs
  /\ Cmds \in [Procs -> SUBSET (MountCmd \cup UmountCmd)]
  /\ SerialMounts \in BOOLEAN
  /\ MaxRetries \in Nat \ {0}

Device == [hash : Hashes, loop : Loops]

ASSUME NoneAssumption ==
  /\ NoHash \notin Hashes /\ NoLoop \notin Loops /\ NoAtom \notin Atoms
  /\ Stray \notin Atoms /\ NoDevice \notin Device
  /\ NoDir \notin LockDirs /\ LockDirs \cap MetaDirs = {} /\ NoDir \notin MetaDirs

VARIABLES
  pc, cmd,    \* where an invocation is, the command it runs
  (* local variables of an invocation *)
  fd,         \* the file it opened to lock it
  idx,        \* position in the layers (mount) or lower directories (umount)
  loop,       \* the loop device it attached or is about to detach
  tries,      \* attempts of retryIfBusy
  lower,      \* lower directories of the overlay being unmounted
  (* the file system *)
  metadirs,   \* the metadata directories that exist
  upper,      \* those that hold the upper directory of a writeable overlay
  gen,        \* how often a lock file in use was deleted
  (* the kernel *)
  dm,         \* dm[a]: the device /dev/mapper/<a>-verity
  corrupt,    \* atoms whose device has the status "C"
  loops,      \* loops[l]: the file behind a loop device
  mnt,        \* mnt[m][a]: mounts stacked on m/mounts/<a>, oldest first
  ovl         \* ovl[t]: overlays stacked on t, oldest first

invocation == <<pc, cmd>>
locals     == <<fd, idx, loop, tries, lower>>
files      == <<metadirs, upper, gen>>
kernel     == <<dm, corrupt, loops, mnt, ovl>>
vars       == <<pc, cmd, fd, idx, loop, tries, lower,
                metadirs, upper, gen, dm, corrupt, loops, mnt, ovl>>

(***************************************************************************)
(* Steps of an invocation.  Those of Critical run with the advisory lock   *)
(* held: the lock is that of the open file fd[p] and lasts until p exits.  *)
(***************************************************************************)
Final == {"ok", "err", "dead"}
BeforeLock == {"start", "ensureDir", "makeLock", "flock"}
AtomSteps == {"prepare", "mountPlain", "statDevice", "attachLoop", "activate",
              "confirmHash", "confirmValidity", "mountDevice", "undoDevice", "undoLoop"}
MountSteps == AtomSteps \cup
              {"overlayLowerDirs", "nextAtom", "writeConfig", "mountOverlay", "cleanup"}
UmountSteps == {"findOverlay", "umountTop", "nextLower", "checkUsed",
                "deactivate", "detach", "removeMeta"}
Critical == MountSteps \cup UmountSteps
Steps == BeforeLock \cup Critical \cup Final

Target(p) == cmd[p].target
Meta(p)   == MetaOf[Target(p)]
Image(p)  == cmd[p].image

(* The layer the loop of mountUnderlyingAtoms is at, and its annotation.   *)
Atom(p) == Layers[Image(p)][idx[p]]
Hash(p) == RootHash[Image(p)][Atom(p)]

Goto(p, step) == pc' = [pc EXCEPT ![p] = step] /\ UNCHANGED cmd

(* Returning closes the lock file, which releases the lock.                *)
Exit(p, result) ==
  /\ Goto(p, result)
  /\ fd'    = [fd EXCEPT ![p] = [dir |-> NoDir, gen |-> 0]]
  /\ idx'   = [idx EXCEPT ![p] = 0]
  /\ loop'  = [loop EXCEPT ![p] = NoLoop]
  /\ tries' = [tries EXCEPT ![p] = 0]
  /\ lower' = [lower EXCEPT ![p] = << >>]

(* The system call of this step may fail without a cause in the state.     *)
MayFail(p) == pc[p] \in Failing

(* The FUSE mounts of those that are not root of the host may come to      *)
(* nothing and be reported as a success.                                   *)
MayGiveUp(p) == p \notin HostRoot /\ "mountPlain" \in Failing

-----------------------------------------------------------------------------
(* Device mapper, loop devices and mounts.                                 *)

Present(a) == dm[a] # NoDevice

(* A device cannot be removed while its superblock is mounted somewhere,   *)
(* in any mount namespace, or is a layer of an overlay.                    *)
DevBusy(a) ==
  \/ \E m \in MetaDirs : "dm" \in ToSet(mnt[m][a])
  \/ \E t \in Targets : \E k \in DOMAIN ovl[t] : a \in ovl[t][k].pins

(* The mount that is seen at m/mounts/a is one of the device.              *)
DevOnTop(m, a) == mnt[m][a] # << >> /\ Last(mnt[m][a]) = "dm"

(* The mounts of one mount namespace are what /proc/self/mountinfo shows.  *)
UsedHere(m, a) ==
  \E n \in MetaDirs : NsOf[n] = NsOf[m] /\ "dm" \in ToSet(mnt[n][a])

(* The loop devices after LOOP_CLR_FD on l: one that still backs a device  *)
(* stays attached.                                                         *)
Detached(l) ==
  IF \E a \in Atoms : Present(a) /\ dm[a].loop = l
  THEN loops ELSE [loops EXCEPT ![l] = NoAtom]

MountedIn(m) == \E a \in Atoms : mnt[m][a] # << >>

(* os.RemoveAll of the metadata directory m cannot remove what is a        *)
(* mountpoint, and removes everything else, the lock file included: a lock *)
(* file opened before is from then on a different file than the one opened *)
(* later, which gen tells apart.  An error on the way leaves some of it.   *)
MetaLock(m) == [dir |-> m, gen |-> gen[m]]

Unlinked(p, m) ==
  IF \E q \in Procs \ {p} : fd[q] = MetaLock(m) THEN [gen EXCEPT ![m] = @ + 1] ELSE gen

RemoveAll(p, m) ==
  \/ /\ metadirs' = IF MountedIn(m) THEN metadirs ELSE metadirs \ {m}
     /\ upper' = upper \ {m}
     /\ gen' = Unlinked(p, m)
  \/ /\ MayFail(p)
     /\ metadirs' = metadirs
     /\ upper' \in {upper, upper \ {m}}
     /\ gen' \in {gen, Unlinked(p, m)}

-----------------------------------------------------------------------------
(* An overlay, with the layers it is read through the device of, and those *)
(* that were not mounted when it was, and whose directory is empty.        *)
Overlay == [image : Images, allow : BOOLEAN, over : {"ro", "rw", "stray"},
            pins : SUBSET Atoms, gaps : SUBSET Atoms]

LockFile == [dir : LockDirs \cup MetaDirs \cup {NoDir}, gen : Nat]

InvocationTypes ==
  /\ pc \in [Procs -> Steps]
  /\ cmd \in [Procs -> MountCmd \cup UmountCmd]

LocalTypes ==
  /\ fd \in [Procs -> LockFile]
  /\ idx \in [Procs -> Nat]
  /\ loop \in [Procs -> Loops \cup {NoLoop}]
  /\ tries \in [Procs -> 0 .. MaxRetries - 1]
  /\ lower \in [Procs -> Seq(Atoms \cup {Stray})]

FileTypes ==
  /\ metadirs \subseteq MetaDirs
  /\ upper \subseteq MetaDirs
  /\ gen \in [MetaDirs -> Nat]

KernelTypes ==
  /\ dm \in [Atoms -> Device \cup {NoDevice}]
  /\ corrupt \subseteq Atoms
  /\ loops \in [Loops -> Atoms \cup {NoAtom}]
  /\ mnt \in [MetaDirs -> [Atoms -> Seq({"dm", "plain"})]]
  /\ ovl \in [Targets -> Seq(Overlay)]

TypeOK == InvocationTypes /\ LocalTypes /\ FileTypes /\ KernelTypes

Init ==
  /\ pc = [p \in Procs |-> "start"]
  /\ cmd \in {c \in [Procs -> UNION {Cmds[p] : p \in Procs}] :
                \A p \in Procs : c[p] \in Cmds[p]}
  /\ fd = [p \in Procs |-> [dir |-> NoDir, gen |-> 0]]
  /\ idx = [p \in Procs |-> 0]
  /\ loop = [p \in Procs |-> NoLoop]
  /\ tries = [p \in Procs |-> 0]
  /\ lower = [p \in Procs |-> << >>]
  /\ metadirs = {} /\ upper = {} /\ gen = [m \in MetaDirs |-> 0]
  /\ dm = [a \in Atoms |-> NoDevice]
  /\ corrupt = {}
  /\ loops = [l \in Loops |-> NoAtom]
  /\ mnt = [m \in MetaDirs |-> [a \in Atoms |-> << >>]]
  /\ ovl = [t \in Targets |-> << >>]
=============================================================================

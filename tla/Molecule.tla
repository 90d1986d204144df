------------------------------ MODULE Molecule ------------------------------
(***************************************************************************)
(* pkg/molecule: Molecule.Mount, which mounts the atoms of an image below  *)
(* the metadata directory of the target and an overlay of them on the      *)
(* target, and UmountWithMetadir, which takes all of it down again.  Any   *)
(* number of invocations of the two run at once.                           *)
(***************************************************************************)
EXTENDS Verity

-----------------------------------------------------------------------------
(* Before the lock is held.                                                *)

OtherMountRunning(p) ==
  \E q \in Procs \ {p} : /\ cmd[q].op = "mount" /\ Meta(q) = Meta(p)
                         /\ pc[q] \notin Final \cup {"start"}

(* Mistakes: do not look for the metadata directory; run the clean-up of a *)
(* failed Mount after the refusal as well.                                 *)
StartUnchecked(p) ==
  /\ pc[p] = "start" /\ cmd[p].op = "mount"
  /\ SerialMounts => ~OtherMountRunning(p)
  /\ Goto(p, "ensureDir")
  /\ UNCHANGED <<locals, files, kernel>>

RefuseAndClean(p) ==
  /\ pc[p] = "start" /\ cmd[p].op = "mount"
  /\ SerialMounts => ~OtherMountRunning(p)
  /\ Goto(p, IF Meta(p) \in metadirs THEN "cleanup" ELSE "ensureDir")
  /\ UNCHANGED <<locals, files, kernel>>

(* Molecule.Mount: the metadata directory must not exist.                  *)
StartMount(p) ==
  /\ pc[p] = "start" /\ cmd[p].op = "mount"
  /\ SerialMounts => ~OtherMountRunning(p)
  /\ IF Meta(p) \in metadirs
     THEN Exit(p, "err")
     ELSE Goto(p, "ensureDir") /\ UNCHANGED locals
  /\ UNCHANGED <<files, kernel>>

StartUmount(p) ==
  /\ pc[p] = "start" /\ cmd[p].op = "umount"
  /\ Goto(p, "makeLock")
  /\ UNCHANGED <<locals, files, kernel>>

EnsureDir(p) ==
  /\ pc[p] = "ensureDir"
  /\ \/ /\ metadirs' = metadirs \cup {Meta(p)}
        /\ Goto(p, "makeLock")
        /\ UNCHANGED locals
     \/ /\ MayFail(p)
        /\ Exit(p, "err")
        /\ UNCHANGED metadirs
  /\ UNCHANGED <<upper, gen, kernel>>

(* Create .atomfs-lock in $TMPDIR or else in the metadata directory, which *)
(* Umount does not create.                                                 *)
MakeLock(p) ==
  /\ pc[p] = "makeLock"
  /\ \/ LockDirOf[p] # NoDir /\ fd' = [fd EXCEPT ![p] = [dir |-> LockDirOf[p], gen |-> 0]]
     \/ /\ LockDirOf[p] = NoDir /\ Meta(p) \in metadirs
        /\ fd' = [fd EXCEPT ![p] = MetaLock(Meta(p))]
  /\ Goto(p, "flock")
  /\ UNCHANGED <<idx, loop, tries, lower, files, kernel>>

MakeLockFails(p) ==
  /\ pc[p] = "makeLock"
  /\ MayFail(p) \/ (LockDirOf[p] = NoDir /\ Meta(p) \notin metadirs)
  /\ Exit(p, "err")
  /\ UNCHANGED <<files, kernel>>

(* A mistake: no lock is taken.                                            *)
NoFlock(p) ==
  /\ pc[p] = "flock"
  /\ Goto(p, IF cmd[p].op = "mount" THEN "overlayLowerDirs" ELSE "findOverlay")
  /\ UNCHANGED <<locals, files, kernel>>

Flock(p) ==
  /\ pc[p] = "flock"
  /\ \A q \in Procs \ {p} : fd[q] = fd[p] => pc[q] \notin Critical
  /\ Goto(p, IF cmd[p].op = "mount" THEN "overlayLowerDirs" ELSE "findOverlay")
  /\ UNCHANGED <<locals, files, kernel>>

FlockFails(p) ==
  /\ pc[p] = "flock" /\ MayFail(p)
  /\ Exit(p, "err")
  /\ UNCHANGED <<files, kernel>>

-----------------------------------------------------------------------------
(* Molecule.Mount.                                                         *)

(* For an image of one layer the directory "workaround" is created, and    *)
(* with it the metadata directory if it has gone.                          *)
OverlayLowerDirs(p) ==
  /\ pc[p] = "overlayLowerDirs"
  /\ \/ /\ metadirs' = IF Len(Layers[Image(p)]) = 1
                       THEN metadirs \cup {Meta(p)} ELSE metadirs
        /\ idx' = [idx EXCEPT ![p] = 1]
        /\ Goto(p, "nextAtom")
        /\ UNCHANGED <<fd, loop, tries, lower>>
     \/ /\ MayFail(p) /\ Len(Layers[Image(p)]) = 1
        /\ Exit(p, "err")
        /\ UNCHANGED metadirs
  /\ UNCHANGED <<upper, gen, kernel>>

(* One iteration of mountUnderlyingAtoms up to the call of fsi.Mount.      *)
AtNextAtom(p) == pc[p] = "nextAtom" /\ idx[p] <= Len(Layers[Image(p)])

Refused(p) == ~cmd[p].allow /\ (Hash(p) = NoHash \/ p \notin HostRoot)

RefuseAtom(p) ==
  /\ AtNextAtom(p) /\ (MayFail(p) \/ Refused(p))
  /\ FailMount(p)
  /\ UNCHANGED <<files, kernel>>

(* What is mounted already is taken over if its source, that of the first  *)
(* mount found, is a device with the annotated hash and no corruption.     *)
Acceptable(p) ==
  \/ Hash(p) = NoHash
  \/ /\ Head(mnt[Meta(p)][Atom(p)]) = "dm"
     /\ Present(Atom(p)) /\ dm[Atom(p)].hash = Hash(p) /\ Atom(p) \notin corrupt

ReuseMounted(p) ==
  /\ AtNextAtom(p) /\ ~Refused(p)
  /\ mnt[Meta(p)][Atom(p)] # << >>
  /\ IF Acceptable(p)
     THEN /\ idx' = [idx EXCEPT ![p] = @ + 1]
          /\ UNCHANGED <<pc, cmd, fd, loop, tries, lower>>
     ELSE FailMount(p)
  /\ UNCHANGED <<files, kernel>>

MakeMountpoint(p) ==
  /\ AtNextAtom(p) /\ ~Refused(p)
  /\ mnt[Meta(p)][Atom(p)] = << >>
  /\ metadirs' = metadirs \cup {Meta(p)}
  /\ Goto(p, "prepare")
  /\ UNCHANGED <<locals, upper, gen, kernel>>

(* fs.NewFromMediaType and the fsi.Mount of squashfs or erofs, which only  *)
(* mounts through dm-verity as root of the host and with a root hash, and  *)
(* in that case does not fall back to FUSE.                                *)
ByVerity(p) == p \in HostRoot /\ Hash(p) # NoHash

FsMount(p) ==
  /\ pc[p] = "prepare"
  /\ Atom(p) \notin Unsupported
  /\ ByVerity(p) => BlobHash[Atom(p)] # NoHash
  /\ Goto(p, IF ByVerity(p) THEN "statDevice" ELSE "mountPlain")
  /\ UNCHANGED <<locals, files, kernel>>

FsMountFails(p) ==
  /\ pc[p] = "prepare"
  /\ \/ MayFail(p) \/ Atom(p) \in Unsupported
     \/ ByVerity(p) /\ BlobHash[Atom(p)] = NoHash
  /\ FailMount(p)
  /\ UNCHANGED <<files, kernel>>

(* A mount of a loop device that detaches itself, or squashfuse/erofsfuse, *)
(* which refuses a directory that is a mountpoint.  A FUSE server that     *)
(* dies afterwards leaves the mount, over which the kernel puts no overlay.*)
MountPlain(p) ==
  LET a == Atom(p) m == Meta(p)
  IN /\ pc[p] = "mountPlain"
     /\ mnt[m][a] = << >> \/ p \in HostRoot
     /\ mnt' = [mnt EXCEPT ![m][a] = Append(@, "plain")]
     /\ idx' = [idx EXCEPT ![p] = @ + 1]
     /\ Goto(p, "nextAtom")
     /\ UNCHANGED <<fd, loop, tries, lower, files, dm, corrupt, loops, ovl>>

(* GuestMount is told of success when the FUSE server was killed without   *)
(* having mounted anything (FuseMount!GaveUpIsAnError).                    *)
MountPlainGivesUp(p) ==
  /\ pc[p] = "mountPlain" /\ MayGiveUp(p)
  /\ mnt[Meta(p)][Atom(p)] = << >>
  /\ idx' = [idx EXCEPT ![p] = @ + 1]
  /\ Goto(p, "nextAtom")
  /\ UNCHANGED <<fd, loop, tries, lower, files, kernel>>

(* And of an error when one mounted and died, whose mount stays.           *)
MountPlainDies(p) ==
  /\ pc[p] = "mountPlain" /\ MayGiveUp(p)
  /\ mnt[Meta(p)][Atom(p)] = << >>
  /\ mnt' = [mnt EXCEPT ![Meta(p)][Atom(p)] = Append(@, "plain")]
  /\ FailMount(p)
  /\ UNCHANGED <<files, dm, corrupt, loops, ovl>>

MountPlainFails(p) ==
  /\ pc[p] = "mountPlain"
  /\ MayFail(p) \/ mnt[Meta(p)][Atom(p)] # << >>
  /\ FailMount(p)
  /\ UNCHANGED <<files, kernel>>

AtomsDone(p) ==
  /\ pc[p] = "nextAtom" /\ idx[p] > Len(Layers[Image(p)])
  /\ Goto(p, "writeConfig")
  /\ UNCHANGED <<locals, files, kernel>>

(* config.json, and for a writeable overlay ro, work and persist, which    *)
(* are in the metadata directory unless --persist names another place.     *)
WriteConfig(p) ==
  /\ pc[p] = "writeConfig"
  /\ Meta(p) \in metadirs
  /\ upper' = IF cmd[p].over = "ro" THEN upper ELSE upper \cup {Meta(p)}
  /\ Goto(p, "mountOverlay")
  /\ UNCHANGED <<locals, metadirs, gen, kernel>>

WriteConfigFails(p) ==
  /\ pc[p] = "writeConfig"
  /\ MayFail(p) \/ Meta(p) \notin metadirs
  /\ FailMount(p)
  /\ UNCHANGED <<files, kernel>>

(* The kernel refuses overlapping lower directories, hence a layer that    *)
(* the image has twice.  The overlay keeps the superblocks of its layers.  *)
MountOverlay(p) ==
  LET layers == ToSet(Layers[Image(p)])
      top == [image |-> Image(p), allow |-> cmd[p].allow, over |-> cmd[p].over,
              pins |-> {a \in layers : DevOnTop(Meta(p), a)},
              gaps |-> {a \in layers : MayGiveUp(p) /\ mnt[Meta(p)][a] = << >>}]
  IN /\ pc[p] = "mountOverlay"
     /\ IsInjective(Layers[Image(p)])
     /\ Meta(p) \in metadirs
     /\ ovl' = [ovl EXCEPT ![Target(p)] = Append(@, top)]
     /\ Exit(p, "ok")
     /\ UNCHANGED <<files, dm, corrupt, loops, mnt>>

(* Also the refusal of options of more than 4096 characters.               *)
MountOverlayFails(p) ==
  /\ pc[p] = "mountOverlay"
  /\ \/ MayFail(p) \/ ~IsInjective(Layers[Image(p)])
     \/ Meta(p) \notin metadirs
     \/ \E a \in ToSet(Layers[Image(p)]) : mnt[Meta(p)][a] = << >>
  /\ FailMount(p)
  /\ UNCHANGED <<files, kernel>>

(* The deferred function of Mount.  No atom is unmounted: the function     *)
(* mountUnderlyingAtoms returns is a no-op after its success and is not    *)
(* deferred after its failure.                                             *)
Cleanup(p) ==
  /\ pc[p] = "cleanup"
  /\ RemoveAll(p, Meta(p))
  /\ Exit(p, "err")
  /\ UNCHANGED kernel

-----------------------------------------------------------------------------
(* UmountWithMetadir.                                                      *)

(* The lower directories of the overlay, without those the loop skips.     *)
(* A writeable overlay has dest itself as first lower directory, which is  *)
(* skipped unless it was given as a path relative to the directory that    *)
(* Mount ran in and Umount runs in another ("stray").                      *)
OverlayLower(o) ==
  IF o.over = "stray" THEN <<Stray>> \o Layers[o.image] ELSE Layers[o.image]

(* The first overlay in mountinfo whose mountpoint is dest.                *)
FindOverlay(p) ==
  /\ pc[p] = "findOverlay"
  /\ ovl[Target(p)] # << >>
  /\ lower' = [lower EXCEPT ![p] = OverlayLower(Head(ovl[Target(p)]))]
  /\ Goto(p, "umountTop")
  /\ UNCHANGED <<fd, idx, loop, tries, files, kernel>>

FindOverlayFails(p) ==
  /\ pc[p] = "findOverlay"
  /\ MayFail(p) \/ ovl[Target(p)] = << >>
  /\ Exit(p, "err")
  /\ UNCHANGED <<files, kernel>>

(* unix.Unmount(dest) takes the latest mount off dest.                     *)
UmountTop(p) ==
  /\ pc[p] = "umountTop"
  /\ ovl[Target(p)] # << >>
  /\ ovl' = [ovl EXCEPT ![Target(p)] = Front(@)]
  /\ idx' = [idx EXCEPT ![p] = 1]
  /\ Goto(p, "nextLower")
  /\ UNCHANGED <<fd, loop, tries, lower, files, dm, corrupt, loops, mnt>>

(* A mistake: the error of unix.Unmount(dest) is ignored.                  *)
UmountTopIgnored(p) ==
  /\ pc[p] = "umountTop"
  /\ MayFail(p) \/ ovl[Target(p)] = << >>
  /\ idx' = [idx EXCEPT ![p] = 1]
  /\ Goto(p, "nextLower")
  /\ UNCHANGED <<fd, loop, tries, lower, files, kernel>>

UmountTopFails(p) ==
  /\ pc[p] = "umountTop"
  /\ MayFail(p) \/ ovl[Target(p)] = << >>
  /\ Exit(p, "err")
  /\ UNCHANGED <<files, kernel>>

AtLower(p) == pc[p] = "nextLower" /\ idx[p] <= Len(lower[p])
MountedLower(p) == Lower(p) \in Atoms /\ mnt[Meta(p)][Lower(p)] # << >>

(* GetBackingDevice and unix.Unmount of one lower directory.  The device   *)
(* of a mount without verity needs no further care.                        *)
UmountAtom(p) ==
  LET a == Lower(p) m == Meta(p)
  IN /\ AtLower(p) /\ MountedLower(p)
     /\ mnt' = [mnt EXCEPT ![m][a] = Front(@)]
     /\ IF Head(mnt[m][a]) = "dm"
        THEN Goto(p, "checkUsed") /\ UNCHANGED idx
        ELSE UNCHANGED <<pc, cmd>> /\ idx' = [idx EXCEPT ![p] = @ + 1]
     /\ UNCHANGED <<fd, loop, tries, lower, files, dm, corrupt, loops, ovl>>

UmountAtomFails(p) ==
  /\ AtLower(p)
  /\ MayFail(p) \/ ~MountedLower(p)
  /\ Exit(p, "err")
  /\ UNCHANGED <<files, kernel>>

(* Mistakes: decide from the mounts read before the layer was unmounted;   *)
(* do not look whether the device is used.                                 *)
CheckUsedStale(p) ==
  /\ pc[p] = "checkUsed"
  /\ idx' = [idx EXCEPT ![p] = @ + 1]
  /\ Goto(p, "nextLower")
  /\ UNCHANGED <<fd, loop, tries, lower, files, kernel>>

CheckNothing(p) ==
  /\ pc[p] = "checkUsed" /\ Present(Lower(p))
  /\ loop' = [loop EXCEPT ![p] = dm[Lower(p)].loop]
  /\ Goto(p, "deactivate")
  /\ UNCHANGED <<fd, idx, tries, lower, files, kernel>>

(* Look for another mount of the device, then for the device itself and    *)
(* for its loop device.                                                    *)
CheckUsed(p) ==
  /\ pc[p] = "checkUsed"
  /\ IF UsedHere(Meta(p), Lower(p)) \/ ~Present(Lower(p))
     THEN /\ idx' = [idx EXCEPT ![p] = @ + 1]
          /\ Goto(p, "nextLower")
          /\ UNCHANGED loop
     ELSE /\ loop' = [loop EXCEPT ![p] = dm[Lower(p)].loop]
          /\ Goto(p, "deactivate")
          /\ UNCHANGED idx
  /\ UNCHANGED <<fd, tries, lower, files, kernel>>

CheckUsedFails(p) ==
  /\ pc[p] = "checkUsed" /\ MayFail(p)
  /\ Exit(p, "err")
  /\ UNCHANGED <<files, kernel>>

LowersDone(p) ==
  /\ pc[p] = "nextLower" /\ idx[p] > Len(lower[p])
  /\ Goto(p, "removeMeta")
  /\ UNCHANGED <<locals, files, kernel>>

RemoveMeta(p) ==
  /\ pc[p] = "removeMeta"
  /\ RemoveAll(p, Meta(p))
  /\ Exit(p, IF Meta(p) \in metadirs' THEN "err" ELSE "ok")
  /\ UNCHANGED kernel

RemoveMetaFails(p) ==
  /\ pc[p] = "removeMeta" /\ MayFail(p)
  /\ Exit(p, "err")
  /\ UNCHANGED <<files, kernel>>

-----------------------------------------------------------------------------
(* The environment: dm-verity meets a bad block; a process is killed.      *)

CorruptionFound(a) ==
  /\ Present(a) /\ a \notin corrupt
  /\ a \in Tampered \/ dm[a].hash # BlobHash[a]
  /\ corrupt' = corrupt \cup {a}
  /\ UNCHANGED <<invocation, locals, files, dm, loops, mnt, ovl>>

Crash(p) ==
  /\ p \in Crashers /\ pc[p] \notin Final \cup {"start"}
  /\ Exit(p, "dead")
  /\ UNCHANGED <<files, kernel>>

Terminated ==
  /\ \A p \in Procs : pc[p] \in Final
  /\ UNCHANGED vars

BeforeLockStep(p) ==
  \/ StartMount(p) \/ StartUmount(p) \/ EnsureDir(p)
  \/ MakeLock(p) \/ MakeLockFails(p) \/ Flock(p) \/ FlockFails(p)

VerityMountStep(p) ==
  \/ StatDevice(p) \/ AttachLoop(p) \/ AttachLoopFails(p)
  \/ Activate(p) \/ ActivateFails(p) \/ ConfirmHash(p) \/ ConfirmValidity(p)
  \/ MountDevice(p) \/ MountDeviceFails(p) \/ UndoDevice(p) \/ UndoLoop(p)

MountStep(p) ==
  \/ OverlayLowerDirs(p) \/ RefuseAtom(p) \/ ReuseMounted(p) \/ MakeMountpoint(p)
  \/ FsMount(p) \/ FsMountFails(p) \/ MountPlain(p) \/ MountPlainGivesUp(p)
  \/ MountPlainDies(p) \/ MountPlainFails(p)
  \/ AtomsDone(p) \/ WriteConfig(p) \/ WriteConfigFails(p)
  \/ MountOverlay(p) \/ MountOverlayFails(p) \/ Cleanup(p)

UmountStep(p) ==
  \/ FindOverlay(p) \/ FindOverlayFails(p) \/ UmountTop(p) \/ UmountTopFails(p)
  \/ UmountAtom(p) \/ UmountAtomFails(p) \/ CheckUsed(p) \/ CheckUsedFails(p)
  \/ DeactivateFails(p) \/ Deactivate(p) \/ Detach(p)
  \/ LowersDone(p) \/ RemoveMeta(p) \/ RemoveMetaFails(p)

Run(p) == BeforeLockStep(p) \/ VerityMountStep(p) \/ MountStep(p) \/ UmountStep(p)

Next ==
  \/ \E p \in Procs : Run(p) \/ Crash(p)
  \/ \E a \in Atoms : CorruptionFound(a)
  \/ Terminated

Spec == Init /\ [][Next]_vars

(* A process that can make a step makes one in the end, and Linux grants   *)
(* a flock to a waiter when it is released.  Nothing obliges a process to  *)
(* crash or a block to be read.                                            *)
FairSpec == Spec /\ \A p \in Procs : WF_vars(Run(p))

-----------------------------------------------------------------------------
(* Safety.                                                                 *)

(* What is mounted without --allow-missing-verity is what was signed: each *)
(* layer of the overlay is read through a device, which still exists, with *)
(* the root hash that the image's manifest annotates (molecule.go:89-98    *)
(* and the two checks of VerityHostMount), whoever set up the device.      *)
LiveMoleculesVerified ==
  \A t \in Targets : \A k \in DOMAIN ovl[t] :
    LET o == ovl[t][k]
    IN ~o.allow => \A a \in ToSet(Layers[o.image]) :
         /\ a \in o.pins
         /\ Present(a) /\ dm[a].hash = RootHash[o.image][a]

(* "we want to be sure we don't both create or delete devices out from the *)
(* other one when they have detected the device exists"                    *)
(* (molecule.go:176-179): a device that an invocation found, or created,   *)
(* is there until the invocation has mounted it.                           *)
DetectedDeviceStays ==
  \A p \in Procs :
    pc[p] \in {"confirmHash", "confirmValidity", "mountDevice"} => Present(Atom(p))

(* While an overlay is on its target every layer of it is mounted below    *)
(* the metadata directory, where Umount will look for it; except a layer   *)
(* whose FUSE mount had come to nothing unnoticed before the overlay was   *)
(* mounted, which only root of a user namespace meets.                     *)
LiveMoleculeIntact ==
  \A t \in Targets : \A k \in DOMAIN ovl[t] :
    LET o == ovl[t][k]
    IN \A a \in ToSet(Layers[o.image]) \ o.gaps : mnt[MetaOf[t]][a] # << >>

(* While an overlay is on its target its metadata directory exists, which  *)
(* is what keeps a second Mount away (molecule.go:209), and the upper      *)
(* directory of a writeable one has not been deleted with what the user    *)
(* wrote to it.                                                            *)
LiveMoleculeKeepsMeta ==
  \A t \in Targets : \A k \in DOMAIN ovl[t] :
    /\ MetaOf[t] \in metadirs
    /\ ovl[t][k].over # "ro" => MetaOf[t] \in upper

Mounting(p) == cmd[p].op = "mount" /\ pc[p] \notin Final \cup {"start"}

(* Whenever nobody holds the lock, the devices are those that an overlay   *)
(* uses, the loop devices those that a device uses, atoms are mounted for  *)
(* the live molecules only, and there is no metadata directory of others:  *)
(* nothing leaks through any number of Mounts and Umounts that share       *)
(* layers, and nothing is missing.                                         *)
CleanWhenUnlocked ==
  (\A p \in Procs : pc[p] \notin Critical) =>
    /\ \A a \in Atoms : Present(a) =>
         \E t \in Targets : \E k \in DOMAIN ovl[t] : a \in ovl[t][k].pins
    /\ \A l \in Loops : loops[l] # NoAtom =>
         Present(loops[l]) /\ dm[loops[l]].loop = l
    /\ \A m \in MetaDirs, a \in Atoms : mnt[m][a] # << >> =>
         \E t \in Targets : \E k \in DOMAIN ovl[t] :
           MetaOf[t] = m /\ a \in ToSet(Layers[ovl[t][k].image])
    /\ \A m \in metadirs :
         \/ \E t \in Targets : MetaOf[t] = m /\ ovl[t] # << >>
         \/ \E p \in Procs : Meta(p) = m /\ Mounting(p)

(* A failed Mount leaves no atom mounted: "in the case that we have a      *)
(* verity or other mount error we need to tear down the other underlying   *)
(* atoms so we don't leave verity and loop devices around unused"          *)
(* (molecule.go:64-66).                                                    *)
FailedMountLeavesNothing ==
  \A p \in Procs : cmd[p].op = "mount" /\ pc[p] = "err" =>
    \A a \in ToSet(Layers[Image(p)]) : mnt[Meta(p)][a] # << >> =>
      \E t \in Targets : MetaOf[t] = Meta(p) /\ ovl[t] # << >>

(* A target never carries two overlays: "cowardly refusing to mess with    *)
(* it" (molecule.go:209-211).                                              *)
OneOverlayPerTarget == \A t \in Targets : Len(ovl[t]) <= 1

(* Once Umount has taken the overlay off it carries through: each atom is  *)
(* then unmounted "unconditionally" and its device "optionally" cleaned up *)
(* (molecule.go:388-391).                                                  *)
UmountCompletes ==
  [][\A p \in Procs : pc[p] \in UmountSteps \ {"findOverlay", "umountTop"}
                        => pc'[p] # "err"]_vars

(* A Umount that reports success has unmounted each layer of the molecule  *)
(* and removed the metadata directory; on the way it leaves the device of  *)
(* a layer only if another mount or overlay needs it.  This is so whatever *)
(* failed in other invocations before.                                     *)
OkUmountReleases ==
  [][\A p \in Procs :
       /\ pc[p] = "removeMeta" /\ pc'[p] = "ok" =>
            /\ Meta(p) \notin metadirs'
            /\ \A a \in ToSet(lower[p]) : mnt'[Meta(p)][a] = << >>
       /\ pc[p] \in {"checkUsed", "detach"} /\ pc'[p] = "nextLower" =>
            (Present(Lower(p)) => DevBusy(Lower(p)))]_vars

-----------------------------------------------------------------------------
(* An inductive invariant that implies LiveMoleculesVerified and           *)
(* DetectedDeviceStays, for callers that all create their lock file in one *)
(* directory.                                                              *)
CommonLock == \E d \in LockDirs : \A p \in Procs : LockDirOf[p] = d

(* In the critical section, which one invocation at a time is in.          *)
Exclusion ==
  /\ \A p \in Procs : pc[p] \in Critical \cup {"flock"} =>
       fd[p] = [dir |-> LockDirOf[p], gen |-> 0]
  /\ \A p, q \in Procs : pc[p] \in Critical /\ pc[q] \in Critical => p = q

LoopSteps   == MountSteps \ {"overlayLowerDirs", "cleanup"}
VeritySteps == AtomSteps \ {"prepare", "mountPlain"}
LowerSteps  == {"checkUsed", "deactivate", "detach"}
(* Those of a Umount that has taken its overlay off.                       *)
Releasing   == UmountSteps \ {"findOverlay", "umountTop"}

LocalsOK(p) ==
  /\ pc[p] \in MountSteps \cup {"ensureDir"} => cmd[p] \in MountCmd
  /\ pc[p] \in LoopSteps => idx[p] \in 1 .. Len(Layers[Image(p)]) + 1
  /\ pc[p] \in AtomSteps => idx[p] <= Len(Layers[Image(p)])
  /\ pc[p] \in VeritySteps => Hash(p) \in Hashes
  /\ pc[p] = "activate" => loop[p] \in Loops
  /\ pc[p] \in {"writeConfig", "mountOverlay"} => idx[p] = Len(Layers[Image(p)]) + 1
  /\ pc[p] \in UmountSteps => cmd[p].op = "umount"
  /\ pc[p] \in Releasing => idx[p] \in 1 .. Len(lower[p]) + 1
  /\ pc[p] \in LowerSteps => idx[p] <= Len(lower[p]) /\ Lower(p) \in Atoms
  /\ pc[p] = "cleanup" => idx[p] <= Len(Layers[Image(p)]) + 1
  /\ pc[p] \notin LoopSteps \cup Releasing \cup {"cleanup"} => idx[p] = 0

(* The layer a of image i is read through the device it must be read       *)
(* through.                                                                *)
Verified(i, a) == Present(a) /\ dm[a].hash = RootHash[i][a]

(* What a Mount has done so far still stands.                              *)
MountingOK(p) ==
  /\ pc[p] \in LoopSteps /\ ~cmd[p].allow =>
       \A j \in 1 .. idx[p] - 1 :
         LET a == Layers[Image(p)][j]
         IN mnt[Meta(p)][a] = <<"dm">> /\ Verified(Image(p), a)
  /\ pc[p] \in AtomSteps => mnt[Meta(p)][Atom(p)] = << >>
  /\ pc[p] \in AtomSteps /\ ~cmd[p].allow => ByVerity(p)
  /\ pc[p] = "mountPlain" => cmd[p].allow
  /\ pc[p] = "confirmHash" => Present(Atom(p))
  /\ pc[p] \in {"confirmValidity", "mountDevice"} => Verified(Image(p), Atom(p))

(* An atom is mounted at most once in a metadata directory, and devices    *)
(* that are mounted or in an overlay are present.                          *)
MountsOK ==
  \A m \in MetaDirs, a \in Atoms :
    \/ mnt[m][a] \in {<< >>, <<"plain">>}
    \/ mnt[m][a] = <<"dm">> /\ Present(a)

OverlayOK(o) ==
  /\ \A a \in o.pins : Present(a)
  /\ ~o.allow => \A a \in ToSet(Layers[o.image]) : a \in o.pins /\ Verified(o.image, a)

OverlaysOK == \A t \in Targets : \A k \in DOMAIN ovl[t] : OverlayOK(ovl[t][k])

IndInv ==
  /\ TypeOK
  /\ Exclusion
  /\ \A p \in Procs : LocalsOK(p)
  /\ MountsOK
  /\ OverlaysOK
  /\ \A p \in Procs : MountingOK(p)

-----------------------------------------------------------------------------
(* A second one, for callers that run one Mount at a time for a metadata   *)
(* directory, which implies LiveMoleculeIntact and LiveMoleculeKeepsMeta   *)
(* whatever locks the callers have: a metadata directory is one            *)
(* molecule's, or one Mount's that makes one, or one Umount's that takes   *)
(* one apart.                                                              *)
NothingOn(m) == \A t \in Targets : MetaOf[t] = m => ovl[t] = << >>

OneMolecule ==
  \A t \in Targets :
    /\ ovl[t] = << >> \/ ovl[t] = <<ovl[t][1]>>
    /\ \A u \in Targets \ {t} :
         MetaOf[u] = MetaOf[t] => ovl[t] = << >> \/ ovl[u] = << >>

PlaceOK(p) ==
  /\ Mounting(p) =>
       /\ NothingOn(Meta(p))
       /\ \A q \in Procs \ {p} : Mounting(q) => Meta(q) # Meta(p)
  /\ pc[p] \in Releasing =>
       /\ Meta(p) \in metadirs /\ NothingOn(Meta(p))
       /\ \A q \in Procs : Mounting(q) => Meta(q) # Meta(p)
       /\ \A q \in Procs \ {p} : pc[q] \in Releasing => Meta(q) # Meta(p)
  /\ pc[p] \in LoopSteps /\ ~MayGiveUp(p) =>
       \A j \in 1 .. idx[p] - 1 : mnt[Meta(p)][Layers[Image(p)][j]] # << >>
  /\ pc[p] = "mountOverlay" /\ cmd[p].over # "ro" => Meta(p) \in upper

PlaceInv ==
  /\ OneMolecule /\ LiveMoleculeKeepsMeta /\ LiveMoleculeIntact
  /\ \A p \in Procs : PlaceOK(p)

(* A metadata directory exists as long as something is mounted below it;   *)
(* what is mounted there are layers of the one molecule, or of the Mount   *)
(* that makes it; and what the overlay holds the device of is mounted      *)
(* there through that device.                                              *)
OnlyLayers ==
  /\ \A m \in MetaDirs : MountedIn(m) => m \in metadirs
  /\ \A p \in Procs : Mounting(p) =>
       /\ pc[p] # "ensureDir" => Meta(p) \in metadirs
       /\ \A a \in Atoms : mnt[Meta(p)][a] # << >> => a \in ToSet(Layers[Image(p)])
  /\ \A t \in Targets : ovl[t] # << >> =>
       \A a \in Atoms :
         /\ mnt[MetaOf[t]][a] # << >> => a \in ToSet(Layers[ovl[t][1].image])
         /\ a \in ovl[t][1].pins => mnt[MetaOf[t]][a] = <<"dm">>

(* A third one, on top of IndInv, which implies OkUmountReleases: what a   *)
(* Umount takes off is what it has looked at, what it has passed in its    *)
(* list is unmounted, and the device of the layer it is at is gone when    *)
(* its loop device is detached.                                            *)
UmountOK(p) ==
  /\ pc[p] = "umountTop" =>
       /\ ovl[Target(p)] # << >>
       /\ lower[p] = OverlayLower(Head(ovl[Target(p)]))
  /\ pc[p] \in Releasing =>
       \A j \in 1 .. idx[p] - 1 :
         lower[p][j] \in Atoms /\ mnt[Meta(p)][lower[p][j]] = << >>
  /\ pc[p] \in LowerSteps => mnt[Meta(p)][Lower(p)] = << >>
  /\ pc[p] = "detach" => ~Present(Lower(p))
  /\ pc[p] = "removeMeta" => idx[p] = Len(lower[p]) + 1

UmountInv == \A p \in Procs : UmountOK(p)

(* Runs in which nothing goes wrong on the outside, except before anything *)
(* was touched: sound blobs, images and commands that can be mounted, one  *)
(* mount namespace, and a loop device for each layer that may be asked for.*)
Wanted == {a \in Atoms : \E p \in Procs : \E c \in Cmds[p] :
             c.op = "mount" /\ a \in ToSet(Layers[c.image])}

Mountable(p, i, allow) ==
  /\ IsInjective(Layers[i])
  /\ \A a \in ToSet(Layers[i]) :
       IF p \in HostRoot /\ RootHash[i][a] # NoHash
       THEN RootHash[i][a] = BlobHash[a] ELSE allow

Undisturbed ==
  /\ Failing \subseteq {"ensureDir", "umountTop"} /\ Crashers = {}
  /\ Tampered = {} /\ Unsupported = {}
  /\ \A m, n \in MetaDirs : NsOf[m] = NsOf[n]
  /\ \A p \in Procs : \A c \in Cmds[p] :
       c.op = "mount" => c.over # "stray" /\ Mountable(p, c.image, c.allow)
  /\ IsFiniteSet(Loops) /\ IsFiniteSet(Wanted)
  /\ Cardinality(Wanted) <= Cardinality(Loops)

(* A fourth one, for undisturbed runs, on top of the others, which implies *)
(* CleanWhenUnlocked and UmountCompletes: each device, loop device, mount  *)
(* and metadata directory belongs to a live molecule or to the invocation  *)
(* that is at work on it, and no Mount has had to give up.                 *)
DevicesClean ==
  /\ corrupt = {}
  /\ \A a \in Atoms : Present(a) =>
       /\ a \in Wanted /\ dm[a].hash = BlobHash[a] /\ loops[dm[a].loop] = a
       /\ \/ \E m \in MetaDirs : mnt[m][a] = <<"dm">>
          \/ \E p \in Procs : \/ pc[p] \in {"confirmValidity", "mountDevice"} /\ Atom(p) = a
                              \/ pc[p] \in {"checkUsed", "deactivate"} /\ Lower(p) = a
  /\ \A l \in Loops : loops[l] # NoAtom =>
       \/ Present(loops[l]) /\ dm[loops[l]].loop = l
       \/ \E p \in Procs : pc[p] \in {"activate", "detach"} /\ loop[p] = l

PlacesClean ==
  /\ \A m \in metadirs :
       \/ ~NothingOn(m)
       \/ \E p \in Procs : Meta(p) = m /\ pc[p] # "ensureDir"
                           /\ (Mounting(p) \/ pc[p] \in Releasing)
  /\ \A t \in Targets : ovl[t] # << >> =>
       /\ ovl[t][1].over # "stray" /\ IsInjective(Layers[ovl[t][1].image])
       /\ ovl[t][1].gaps = {}
       /\ \A a \in Atoms : mnt[MetaOf[t]][a] = <<"dm">> => a \in ovl[t][1].pins

MountClean(p) ==
  /\ pc[p] \notin {"cleanup", "undoDevice", "undoLoop"}
  /\ Mounting(p) /\ pc[p] \notin LoopSteps => ~MountedIn(Meta(p))
  /\ pc[p] \in LoopSteps =>
       \A j \in idx[p] .. Len(Layers[Image(p)]) : mnt[Meta(p)][Layers[Image(p)][j]] = << >>
  /\ pc[p] \in VeritySteps => ByVerity(p)
  /\ pc[p] \in {"attachLoop", "activate"} => ~Present(Atom(p))
  /\ pc[p] = "activate" => loops[loop[p]] = Atom(p)

(* What the Umount has still to unmount is what is mounted.                *)
UmountClean(p) ==
  /\ pc[p] \in Releasing =>
       /\ lower[p] \in Seq(Atoms) /\ IsInjective(lower[p])
       /\ \A a \in Atoms : mnt[Meta(p)][a] # << >> <=>
            \E j \in idx[p] .. Len(lower[p]) :
              a = lower[p][j] /\ (pc[p] \in LowerSteps => j # idx[p])
  /\ pc[p] = "deactivate" =>
       /\ Present(Lower(p)) /\ loop[p] = dm[Lower(p)].loop
       /\ \A m \in MetaDirs : mnt[m][Lower(p)] # <<"dm">>
  /\ pc[p] = "detach" => loop[p] \in Loops /\ loops[loop[p]] = Lower(p)

CleanInv ==
  /\ DevicesClean /\ PlacesClean
  /\ \A p \in Procs : cmd[p] \in Cmds[p] /\ MountClean(p) /\ UmountClean(p)

(* A place that a killed or failed invocation left behind, the metadata    *)
(* directory there and no molecule, stays so: each Mount refuses it, each  *)
(* Umount finds no overlay, and none of them uses or removes what is left  *)
(* (molecule.go:209-211, 362-373).  There is no way back but by hand.      *)
Abandoned(m) ==
  /\ m \in metadirs /\ NothingOn(m)
  /\ \A p \in Procs : Meta(p) = m => ~Mounting(p) /\ pc[p] \notin Releasing

AbandonedStays == [][\A m \in MetaDirs : Abandoned(m) => Abandoned(m)']_vars

-----------------------------------------------------------------------------
(* How far an invocation is: its step outside the loops, the layer it is   *)
(* at, its step with that layer, and the attempts to remove the device.    *)
Stage(step) ==
  CASE step = "start"      -> 0
    [] step = "ensureDir"  -> 1
    [] step = "makeLock"   -> 2
    [] step = "flock"      -> 3
    [] step \in {"overlayLowerDirs", "findOverlay"} -> 4
    [] step = "umountTop"  -> 5
    [] step \in AtomSteps \cup LowerSteps \cup {"nextAtom", "nextLower"} -> 6
    [] step \in {"writeConfig", "removeMeta"} -> 7
    [] step = "mountOverlay" -> 8
    [] step = "cleanup"    -> 9
    [] OTHER               -> 10

Turn(step) ==
  CASE step = "prepare" -> 1
    [] step \in {"statDevice", "mountPlain", "checkUsed"} -> 2
    [] step \in {"attachLoop", "deactivate"} -> 3
    [] step \in {"activate", "confirmHash", "detach"} -> 4
    [] step = "confirmValidity" -> 5
    [] step = "mountDevice" -> 6
    [] step = "undoDevice"  -> 7
    [] step = "undoLoop"    -> 8
    [] OTHER -> 0

Position(p) == <<Stage(pc[p]), idx[p], Turn(pc[p]), tries[p]>>

Before(x, y) ==
  \E k \in 1 .. 4 : x[k] < y[k] /\ \A j \in 1 .. k - 1 : x[j] = y[j]

Positions(p) ==
  LET layers == IF cmd[p].op = "mount" THEN Layers[Image(p)] ELSE lower[p]
  IN (0 .. 10) \X (0 .. Len(layers) + 1) \X (0 .. 8) \X (0 .. MaxRetries - 1)

(* Each step of an invocation brings it forward, among as many positions   *)
(* as its layers and the limit of retries allow, and no step of another    *)
(* sets it back: whatever others do to devices, mounts and directories, it *)
(* has a bounded number of steps until it returns (molecule.go:82-137,     *)
(* 392-429, verity.go:333-349).                                            *)
StepsForward ==
  [][\A p \in Procs :
       /\ Position(p)' \in Positions(p)'
       /\ \/ Before(Position(p), Position(p)')
          \/ Position(p)' = Position(p) /\ ~Run(p)]_vars

-----------------------------------------------------------------------------
(* Liveness: an invocation that was started ends.                          *)
Termination == \A p \in Procs : <>(pc[p] \in Final)
=============================================================================

----------------------------- MODULE PlaceProofs -----------------------------
(***************************************************************************)
(* Proofs about where molecules are: that a live one keeps its layers and  *)
(* its metadata directory, for any number of invocations, molecules,       *)
(* layers and images, with any failures and kills and whatever lock files  *)
(* they have, provided that they run one Mount at a time for a metadata    *)
(* directory (SerialMounts): here not the lock keeps them apart but the    *)
(* metadata directory, which Mount refuses to find.                        *)
(***************************************************************************)
EXTENDS MoleculeRefinement, MoleculeProofs

USE DEF Critical, MountSteps, AtomSteps, UmountSteps, BeforeLock, Steps, Final

-----------------------------------------------------------------------------
(* What a step may change.                                                 *)

(* The steps that touch a metadata directory or an upper directory; the    *)
(* last two remove.                                                        *)
TouchesFiles(p) ==
  \/ EnsureDir(p) \/ OverlayLowerDirs(p) \/ MakeMountpoint(p) \/ WriteConfig(p)
  \/ Cleanup(p) \/ RemoveMeta(p)

LEMMA FilesFootprint ==
  ASSUME NEW p \in Procs, Run(p) \/ Crash(p)
  PROVE  UNCHANGED <<metadirs, upper>> \/ TouchesFiles(p)
<1>. USE DEF files, TouchesFiles
<1>1. CASE BeforeLockStep(p)
  BY <1>1 DEF BeforeLockStep, StartMount, StartUmount, EnsureDir, MakeLock, MakeLockFails, Flock, FlockFails
<1>2. CASE VerityMountStep(p)
  BY <1>2 DEF VerityMountStep, StatDevice, AttachLoop, AttachLoopFails, Activate, ActivateFails, ConfirmHash, ConfirmValidity, MountDevice, MountDeviceFails, UndoDevice, UndoLoop
<1>3. CASE MountStep(p)
  BY <1>3 DEF MountStep, RefuseAtom, ReuseMounted, FsMount, FsMountFails, MountPlain, MountPlainGivesUp, MountPlainDies, MountPlainFails, AtomsDone, WriteConfigFails, MountOverlay, MountOverlayFails
<1>4. CASE UmountStep(p)
  BY <1>4 DEF UmountStep, FindOverlay, FindOverlayFails, UmountTop, UmountTopFails, UmountAtom, UmountAtomFails, CheckUsed, CheckUsedFails, DeactivateFails, Deactivate, Detach, LowersDone, RemoveMetaFails
<1>5. CASE Crash(p)
  BY <1>5 DEF Crash
<1>. QED BY <1>1, <1>2, <1>3, <1>4, <1>5 DEF Run

(* What is removed is the directory of the invocation, at the end of a     *)
(* failed Mount or of a Umount.                                            *)
LEMMA Removes ==
  ASSUME NEW p \in Procs, Run(p) \/ Crash(p)
  PROVE  \/ metadirs \subseteq metadirs' /\ upper \subseteq upper'
         \/ /\ Cleanup(p) \/ RemoveMeta(p)
            /\ metadirs \ {Meta(p)} \subseteq metadirs' /\ upper \ {Meta(p)} \subseteq upper'
<1>1. CASE Cleanup(p) \/ RemoveMeta(p)
  BY <1>1 DEF Cleanup, RemoveMeta, RemoveAll
<1>2. CASE EnsureDir(p) \/ OverlayLowerDirs(p) \/ MakeMountpoint(p) \/ WriteConfig(p)
  BY <1>2 DEF EnsureDir, OverlayLowerDirs, MakeMountpoint, WriteConfig
<1>. QED BY <1>1, <1>2, FilesFootprint DEF TouchesFiles

(* Only a Umount that has taken its overlay off unmounts a layer.          *)
LEMMA Unmounts ==
  ASSUME TypeOK, NEW p \in Procs, LocalsOK(p), Run(p) \/ Crash(p),
         NEW m \in MetaDirs, NEW a \in Atoms, mnt[m][a] # << >>, mnt'[m][a] = << >>
  PROVE  pc[p] \in Releasing /\ m = Meta(p)
<1>0. /\ KernelTypes /\ Meta(p) \in MetaDirs
      /\ mnt \in [MetaDirs -> [Atoms -> Seq({"dm", "plain"})]]
  BY TargetType DEF TypeOK, KernelTypes
<1>1. CASE mnt' = mnt
  BY <1>1
<1>2. CASE MountDevice(p) \/ MountPlain(p) \/ MountPlainDies(p)
  <2>1. Atom(p) \in Atoms
    BY <1>2, AtomType DEF MountDevice, MountPlain, MountPlainDies
  <2>2. PICK k \in {"dm", "plain"} : mnt' = [mnt EXCEPT ![Meta(p)][Atom(p)] = Append(@, k)]
    BY <1>2 DEF MountDevice, MountPlain, MountPlainDies
  <2>3. mnt[Meta(p)][Atom(p)] \in Seq({"dm", "plain"})
    BY <1>0, <2>1
  <2>. DEFINE s == Append(mnt[Meta(p)][Atom(p)], k)
  <2>4. s \in Seq({"dm", "plain"}) /\ s # << >>
    BY <2>3, AppendProperties
  <2>5. mnt' = [mnt EXCEPT ![Meta(p)][Atom(p)] = s]
    BY <2>2
  <2>. HIDE DEF s
  <2>6. mnt'[m][a] = IF m = Meta(p) /\ a = Atom(p) THEN s ELSE mnt[m][a]
    BY <1>0, <2>1, <2>4, <2>5, MntUpdate
  <2>. QED BY <2>4, <2>6
<1>3. CASE UmountAtom(p)
  <2>. DEFINE s == Front(mnt[Meta(p)][Lower(p)])
  <2>1. /\ pc[p] = "nextLower" /\ Lower(p) \in Atoms /\ mnt[Meta(p)][Lower(p)] # << >>
        /\ mnt' = [mnt EXCEPT ![Meta(p)][Lower(p)] = s]
    BY <1>3 DEF UmountAtom, AtLower, MountedLower
  <2>2. s \in Seq({"dm", "plain"})
    BY <1>0, <2>1, FrontProperties
  <2>. HIDE DEF s
  <2>3. mnt'[m][a] = IF m = Meta(p) /\ a = Lower(p) THEN s ELSE mnt[m][a]
    BY <1>0, <2>1, <2>2, MntUpdate
  <2>. QED BY <2>1, <2>3 DEF Releasing
<1>4. CASE Activate(p) \/ UndoDevice(p) \/ MountOverlay(p) \/ UmountTop(p) \/ Deactivate(p)
  BY <1>1, <1>4 DEF Activate, UndoDevice, MountOverlay, UmountTop, Deactivate
<1>. QED BY <1>1, <1>2, <1>3, <1>4, Footprint DEF Touches

(* Only these two change what is on a target.                              *)
LEMMA OverlayChanges ==
  ASSUME NEW p \in Procs, Run(p) \/ Crash(p)
  PROVE  ovl' = ovl \/ MountOverlay(p) \/ UmountTop(p)
BY Footprint DEF Touches, Activate, MountDevice, UndoDevice, MountPlain, MountPlainDies, UmountAtom, Deactivate

(* How an invocation becomes a running Mount, or one that releases.        *)
LEMMA Becomes ==
  ASSUME TypeOK, NEW p \in Procs, Run(p) \/ Crash(p)
  PROVE  /\ Mounting(p)' => Mounting(p) \/ StartMount(p)
         /\ pc'[p] \in Releasing => pc[p] \in Releasing \/ UmountTop(p)
         /\ pc'[p] = "mountOverlay" => WriteConfig(p)
         /\ pc'[p] = "umountTop" => FindOverlay(p) /\ ovl[Target(p)] # << >>
         /\ pc'[p] \in UmountSteps => pc[p] \in UmountSteps \/ (Flock(p) /\ cmd[p].op # "mount")
<1>0. pc \in [Procs -> Steps]
  BY DEF TypeOK, InvocationTypes
<1>. USE <1>0 DEF Goto, Exit, FailMount, locals, Mounting, Releasing
<1>1. CASE BeforeLockStep(p)
  BY <1>1 DEF BeforeLockStep, StartMount, StartUmount, EnsureDir, MakeLock, MakeLockFails, Flock, FlockFails
<1>2. CASE VerityMountStep(p)
  BY <1>2 DEF VerityMountStep, StatDevice, AttachLoop, AttachLoopFails, Activate, ActivateFails, ConfirmHash, ConfirmValidity, MountDevice, MountDeviceFails, UndoDevice, UndoLoop
<1>3. CASE MountStep(p)
  BY <1>3 DEF MountStep, OverlayLowerDirs, RefuseAtom, ReuseMounted, AtNextAtom, MakeMountpoint, FsMount, FsMountFails, MountPlain, MountPlainGivesUp, MountPlainDies, MountPlainFails, AtomsDone, WriteConfig, WriteConfigFails, MountOverlay, MountOverlayFails, Cleanup
<1>4. CASE UmountStep(p)
  BY <1>4 DEF UmountStep, FindOverlay, FindOverlayFails, UmountTop, UmountTopFails, UmountAtom, AtLower, UmountAtomFails, CheckUsed, CheckUsedFails, DeactivateFails, Deactivate, Detach, LowersDone, RemoveMeta, RemoveMetaFails
<1>5. CASE Crash(p)
  BY <1>5 DEF Crash
<1>. QED BY <1>1, <1>2, <1>3, <1>4, <1>5 DEF Run

(* What an invocation is about stays the same.                             *)
LEMMA SameCommand ==
  ASSUME TypeOK, NEW p \in Procs, Run(p) \/ Crash(p), NEW q \in Procs
  PROVE  UNCHANGED <<cmd[q], Meta(q), Target(q), Image(q)>>
BY Frame DEF Meta, Target, Image

-----------------------------------------------------------------------------
(* The targets.                                                            *)

(* Nothing appears below a directory but by a Mount of it, which then      *)
(* returns.                                                                *)
LEMMA NothingAppears ==
  ASSUME TypeOK, NEW p \in Procs, Run(p) \/ Crash(p), NEW m \in MetaDirs, NothingOn(m),
         MountOverlay(p) => Meta(p) # m
  PROVE  NothingOn(m)'
<1>0. Target(p) \in Targets /\ ovl \in [Targets -> Seq(Overlay)]
  BY TargetType DEF TypeOK, KernelTypes
<1>1. CASE ovl' = ovl
  BY <1>1 DEF NothingOn
<1>2. CASE MountOverlay(p)
  <2>1. \A t \in Targets : MetaOf[t] = m => ovl'[t] = ovl[t]
    BY <1>0, <1>2 DEF MountOverlay, Meta
  <2>. QED BY <2>1 DEF NothingOn
<1>3. CASE UmountTop(p)
  <2>1. \A t \in Targets : t # Target(p) => ovl'[t] = ovl[t]
    BY <1>0, <1>3 DEF UmountTop
  <2>2. MetaOf[Target(p)] # m
    BY <1>0, <1>3 DEF UmountTop, NothingOn
  <2>. QED BY <2>1, <2>2 DEF NothingOn
<1>. QED BY <1>1, <1>2, <1>3, OverlayChanges

(* A target and its only overlay.                                          *)
LEMMA SingleOverlay ==
  ASSUME TypeOK, OneMolecule, NEW t \in Targets, ovl[t] # << >>
  PROVE  /\ ovl[t][1] \in Overlay /\ ovl[t] = <<ovl[t][1]>> /\ Front(ovl[t]) = << >>
         /\ Head(ovl[t]) = ovl[t][1] /\ Last(ovl[t]) = ovl[t][1]
<1>1. ovl[t] \in Seq(Overlay) /\ ovl[t] = <<ovl[t][1]>>
  BY DEF OneMolecule, TypeOK, KernelTypes
<1>. DEFINE o == ovl[t][1]
<1>2. Len(ovl[t]) = 1
  <2>. HIDE DEF o
  <2>1. Len(<<o>>) = 1
    OBVIOUS
  <2>. QED BY <1>1, <2>1 DEF o
<1>3. o \in Overlay
  BY <1>1, <1>2, ElementOfSeq
<1>4. Front(ovl[t]) \in Seq(Overlay) /\ Len(Front(ovl[t])) = 0
  BY <1>1, <1>2, FrontProperties
<1>5. Front(ovl[t]) = << >>
  BY <1>4, EmptySeq
<1>6. Head(ovl[t]) = o /\ Last(ovl[t]) = o
  BY <1>1, <1>2 DEF Last
<1>. QED BY <1>1, <1>3, <1>5, <1>6

(* What Mount and Umount leave on their target, where there was nothing,   *)
(* or one molecule.                                                        *)
LEMMA AfterMount ==
  ASSUME TypeOK, NEW p \in Procs, MountOverlay(p), NothingOn(Meta(p))
  PROVE  /\ ovl'[Target(p)] = <<NewOverlay(p)>>
         /\ \A t \in Targets : t # Target(p) => ovl'[t] = ovl[t]
<1>1. Target(p) \in Targets /\ ovl \in [Targets -> Seq(Overlay)]
  BY TargetType DEF TypeOK, KernelTypes
<1>2. ovl' = [ovl EXCEPT ![Target(p)] = Append(@, NewOverlay(p))]
  BY DEF MountOverlay, NewOverlay
<1>3. ovl[Target(p)] = << >>
  BY <1>1 DEF NothingOn, Meta
<1>. DEFINE o == NewOverlay(p)
<1>. HIDE DEF o
<1>4. Append(<< >>, o) = <<o>>
  OBVIOUS
<1>. QED BY <1>1, <1>2, <1>3, <1>4 DEF o

LEMMA AfterUmount ==
  ASSUME TypeOK, OneMolecule, NEW p \in Procs, UmountTop(p)
  PROVE  /\ ovl[Target(p)] # << >> /\ ovl'[Target(p)] = << >>
         /\ \A t \in Targets : t # Target(p) => ovl'[t] = ovl[t]
<1>1. Target(p) \in Targets /\ ovl \in [Targets -> Seq(Overlay)]
  BY TargetType DEF TypeOK, KernelTypes
<1>2. ovl[Target(p)] # << >> /\ ovl' = [ovl EXCEPT ![Target(p)] = Front(@)]
  BY DEF UmountTop
<1>3. Front(ovl[Target(p)]) = << >>
  BY <1>1, <1>2, SingleOverlay
<1>. QED BY <1>1, <1>2, <1>3

(* Who mounts the overlay is a Mount.                                      *)
LEMMA OverlayByMount ==
  ASSUME NEW p \in Procs, LocalsOK(p), MountOverlay(p)
  PROVE  Mounting(p)
<1>1. pc[p] = "mountOverlay"
  BY DEF MountOverlay
<1>. QED BY <1>1 DEF LocalsOK, Mounting, MountCmd

LEMMA OneMoleculeStep ==
  ASSUME TypeOK, NEW p \in Procs, LocalsOK(p), Run(p) \/ Crash(p), OneMolecule, PlaceOK(p)
  PROVE  OneMolecule'
<1>0. Target(p) \in Targets
  BY TargetType
<1>1. CASE ovl' = ovl
  BY <1>1 DEF OneMolecule
<1>2. CASE MountOverlay(p)
  <2>1. NothingOn(Meta(p))
    BY <1>2, OverlayByMount DEF PlaceOK
  <2>. DEFINE o == NewOverlay(p)
  <2>2. /\ ovl'[Target(p)] = <<o>>
        /\ \A t \in Targets : t # Target(p) => ovl'[t] = ovl[t]
    BY <1>2, <2>1, AfterMount
  <2>. HIDE DEF o
  <2>3. \A t \in Targets : t # Target(p) /\ MetaOf[t] = MetaOf[Target(p)] => ovl'[t] = << >>
    BY <2>1, <2>2 DEF NothingOn, Meta
  <2>4. <<o>>[1] = o
    OBVIOUS
  <2>. QED BY <2>2, <2>3, <2>4 DEF OneMolecule
<1>3. CASE UmountTop(p)
  BY <1>3, AfterUmount DEF OneMolecule
<1>. QED BY <1>1, <1>2, <1>3, OverlayChanges

-----------------------------------------------------------------------------
(* The invocations.                                                        *)

(* Another Mount does not begin where this one is at work, or a Umount, or *)
(* where a molecule is.                                                    *)
LEMMA Begins ==
  ASSUME SerialMounts, TypeOK, NEW p \in Procs, Run(p) \/ Crash(p), Mounting(p)', ~Mounting(p)
  PROVE  /\ Meta(p) \notin metadirs
         /\ \A q \in Procs \ {p} : Mounting(q) => Meta(q) # Meta(p)
<1>1. StartMount(p)
  BY Becomes
<1>2. Meta(p) \notin metadirs
  <2>1. pc \in [Procs -> Steps]
    BY DEF TypeOK, InvocationTypes
  <2>. QED BY <1>1, <2>1 DEF StartMount, Exit, Goto, Mounting
<1>. QED BY <1>1, <1>2 DEF StartMount, OtherMountRunning, Mounting

(* Where an invocation removes or unmounts there is no molecule, and no    *)
(* other invocation is at work.                                            *)
LEMMA RemovesAlone ==
  ASSUME LocalsInv, PlaceInv, NEW p \in Procs,
         Cleanup(p) \/ RemoveMeta(p) \/ pc[p] \in Releasing
  PROVE  /\ NothingOn(Meta(p))
         /\ \A q \in Procs \ {p} :
              Mounting(q) \/ pc[q] \in Releasing => Meta(q) # Meta(p)
<1>1. PlaceOK(p) /\ LocalsOK(p) /\ \A q \in Procs : PlaceOK(q)
  BY DEF PlaceInv, LocalsInv
<1>2. CASE Cleanup(p)
  <2>1. Mounting(p)
    BY <1>1, <1>2 DEF Cleanup, LocalsOK, Mounting, MountCmd
  <2>2. \A q \in Procs : pc[q] \in Releasing => Meta(q) # Meta(p)
    BY <1>1, <2>1 DEF PlaceOK
  <2>. QED BY <1>1, <2>1, <2>2 DEF PlaceOK
<1>3. CASE RemoveMeta(p) \/ pc[p] \in Releasing
  BY <1>1, <1>3 DEF RemoveMeta, Releasing, PlaceOK
<1>. QED BY <1>2, <1>3

(* No invocation loses its place by the step of another.                   *)
LEMMA OthersPlace ==
  ASSUME SerialMounts, LocalsInv, PlaceInv, NEW p \in Procs, Run(p) \/ Crash(p),
         NEW q \in Procs, q # p
  PROVE  PlaceOK(q)'
<1>0. /\ TypeOK /\ PlaceOK(q) /\ PlaceOK(p) /\ LocalsOK(q) /\ LocalsOK(p)
      /\ Meta(q) \in MetaDirs /\ Meta(p) \in MetaDirs
  BY TargetType DEF LocalsInv, PlaceInv
<1>1. /\ cmd' = cmd /\ pc'[q] = pc[q] /\ idx'[q] = idx[q]
      /\ \A r \in Procs : Meta(r)' = Meta(r) /\ Image(r)' = Image(r)
      /\ \A r \in Procs \ {p} : (Mounting(r)' <=> Mounting(r)) /\ pc'[r] = pc[r]
  <2>1. cmd' = cmd /\ \A r \in Procs \ {p} : pc'[r] = pc[r]
    BY <1>0, Frame
  <2>2. \A r \in Procs \ {p} : Mounting(r)' <=> Mounting(r)
    BY <2>1 DEF Mounting
  <2>. QED BY <1>0, <2>1, <2>2, Frame, SameCommand
<1>2. ASSUME Mounting(q) \/ pc[q] \in Releasing
      PROVE  /\ Meta(q) \in metadirs => Meta(q) \in metadirs'
             /\ Meta(q) \in upper => Meta(q) \in upper'
             /\ \A a \in Atoms : mnt[Meta(q)][a] # << >> => mnt'[Meta(q)][a] # << >>
             /\ NothingOn(Meta(q)) /\ NothingOn(Meta(q))'
             /\ Mounting(p)' => Meta(p) # Meta(q)
  <2>1. Cleanup(p) \/ RemoveMeta(p) \/ pc[p] \in Releasing => Meta(q) # Meta(p)
    BY <1>2, RemovesAlone
  <2>2. /\ NothingOn(Meta(q))
        /\ pc[q] \in Releasing => Meta(q) \in metadirs
        /\ Mounting(p) => Meta(p) # Meta(q)
    BY <1>0, <1>2 DEF PlaceOK
  <2>3. MountOverlay(p) => Mounting(p)
    BY <1>0, OverlayByMount
  <2>4. NothingOn(Meta(q))'
    BY <1>0, <1>1, <2>2, <2>3, NothingAppears DEF NothingOn
  <2>5. Mounting(p)' => Meta(p) # Meta(q)
    BY <1>0, <1>2, <2>2, Begins
  <2>. QED BY <1>0, <2>1, <2>2, <2>4, <2>5, Removes, Unmounts
<1>3. ASSUME Mounting(q)
      PROVE  \A r \in Procs \ {q} : Mounting(r)' => Meta(r) # Meta(q)
  BY <1>0, <1>1, <1>2, <1>3 DEF PlaceOK
<1>4. ASSUME pc[q] \in Releasing
      PROVE  /\ Meta(q) \in metadirs
             /\ \A r \in Procs : Mounting(r)' => Meta(r) # Meta(q)
             /\ \A r \in Procs \ {q} : pc'[r] \in Releasing => Meta(r) # Meta(q)
  <2>1. UmountTop(p) => Meta(p) # Meta(q)
    <3>1. Target(p) \in Targets /\ MetaOf[Target(p)] = Meta(p)
      BY <1>0, TargetType DEF Meta
    <3>. QED BY <1>2, <1>4, <3>1 DEF UmountTop, NothingOn
  <2>2. pc'[p] \in Releasing => Meta(p) # Meta(q)
    BY <1>0, <1>4, <2>1, Becomes DEF PlaceOK
  <2>3. ~Mounting(q)
    BY <1>0, <1>4 DEF PlaceOK, Mounting, Releasing
  <2>. QED BY <1>0, <1>1, <1>2, <1>4, <2>2, <2>3 DEF PlaceOK
<1>5. pc[q] \in LoopSteps => Mounting(q) /\ cmd[q] \in MountCmd /\ idx[q] \in 1 .. Len(Layers[Image(q)]) + 1
  BY <1>0 DEF LocalsOK, LoopSteps, Mounting, MountCmd
<1>6. ASSUME pc[q] \in LoopSteps, ~MayGiveUp(q)
      PROVE  \A j \in 1 .. idx[q] - 1 : mnt'[Meta(q)][Layers[Image(q)][j]] # << >>
  <2>1. Layers[Image(q)] \in Seq(Atoms) /\ Len(Layers[Image(q)]) \in Nat
    BY <1>0, <1>5, <1>6, ImageType
  <2>2. \A j \in 1 .. idx[q] - 1 : j \in 1 .. Len(Layers[Image(q)])
    BY <1>5, <1>6, <2>1
  <2>3. \A j \in 1 .. idx[q] - 1 : Layers[Image(q)][j] \in Atoms
    BY <2>1, <2>2, ElementOfSeq
  <2>4. \A j \in 1 .. idx[q] - 1 : mnt[Meta(q)][Layers[Image(q)][j]] # << >>
    BY <1>0, <1>6 DEF PlaceOK
  <2>. QED BY <1>2, <1>5, <1>6, <2>3, <2>4
<1>7. pc[q] = "mountOverlay" => pc[q] \in LoopSteps
  BY DEF LoopSteps
<1>. QED BY <1>0, <1>1, <1>2, <1>3, <1>4, <1>5, <1>6, <1>7 DEF PlaceOK

(* The layers a Mount has passed are mounted after its own step.           *)
LEMMA OwnLayers ==
  ASSUME TypeOK, NEW p \in Procs, LocalsOK(p), Run(p) \/ Crash(p), PlaceOK(p),
         pc'[p] \in LoopSteps, ~MayGiveUp(p)
  PROVE  \A j \in 1 .. idx'[p] - 1 : mnt'[Meta(p)][Layers[Image(p)][j]] # << >>
<1>. DEFINE L == Layers[Image(p)]
<1>0. /\ pc \in [Procs -> Steps] /\ idx \in [Procs -> Nat] /\ Meta(p) \in MetaDirs
      /\ pc[p] \in LoopSteps => \A j \in 1 .. idx[p] - 1 : mnt[Meta(p)][L[j]] # << >>
  BY TargetType DEF TypeOK, InvocationTypes, LocalTypes, PlaceOK
<1>1. Advances(p)
  BY LeavesLoop
<1>2. CASE OverlayLowerDirs(p)
  BY <1>0, <1>2 DEF OverlayLowerDirs, Exit, Goto, LoopSteps
<1>3. CASE ReuseMounted(p) \/ MountDevice(p) \/ MountPlain(p)
  <2>1. /\ pc[p] \in LoopSteps /\ cmd[p] \in MountCmd /\ Atom(p) = L[idx[p]]
        /\ L \in Seq(Atoms) /\ idx[p] \in 1 .. Len(L) /\ Atom(p) \in Atoms
    <3>1. pc[p] \in LoopSteps /\ (pc[p] \in AtomSteps \/ AtNextAtom(p))
      BY <1>3 DEF ReuseMounted, AtNextAtom, MountDevice, MountPlain, LoopSteps
    <3>2. cmd[p] \in MountCmd /\ idx[p] \in 1 .. Len(L)
      BY <1>0, <3>1, ImageType DEF LocalsOK, LoopSteps, AtNextAtom
    <3>. QED BY <3>1, <3>2, ImageType, AtomType DEF Atom
  <2>2. idx'[p] \in {idx[p], idx[p] + 1}
    BY <1>0, <1>3 DEF ReuseMounted, MountDevice, MountPlain, FailMount
  <2>3. \A j \in 1 .. idx[p] : mnt[Meta(p)][L[j]] # << >> \/ j = idx[p]
    BY <1>0, <2>1
  <2>4. idx'[p] = idx[p] + 1 => mnt'[Meta(p)][Atom(p)] # << >>
    <3>1. CASE ReuseMounted(p)
      BY <3>1 DEF ReuseMounted, kernel
    <3>2. CASE MountDevice(p) \/ MountPlain(p)
      <4>1. PICK k \in {"dm", "plain"} : mnt' = [mnt EXCEPT ![Meta(p)][Atom(p)] = Append(@, k)]
        BY <3>2 DEF MountDevice, MountPlain
      <4>2. mnt \in [MetaDirs -> [Atoms -> Seq({"dm", "plain"})]]
        BY DEF TypeOK, KernelTypes
      <4>3. mnt[Meta(p)][Atom(p)] \in Seq({"dm", "plain"})
        BY <1>0, <2>1, <4>2
      <4>4. Append(mnt[Meta(p)][Atom(p)], k) # << >>
        BY <4>3, AppendProperties
      <4>. QED BY <1>0, <2>1, <4>1, <4>2, <4>4
    <3>. QED BY <1>3, <3>1, <3>2
  <2>5. \A a \in Atoms : mnt[Meta(p)][a] # << >> => mnt'[Meta(p)][a] # << >>
    <3>1. pc[p] \notin Releasing
      BY <2>1 DEF LoopSteps, Releasing
    <3>. QED BY <1>0, <3>1, Unmounts
  <2>6. \A j \in 1 .. idx'[p] - 1 : j \in 1 .. idx[p] /\ j \in 1 .. Len(L) /\ L[j] \in Atoms
    BY <1>0, <2>1, <2>2, ElementOfSeq
  <2>7. ASSUME NEW j \in 1 .. idx'[p] - 1 PROVE mnt'[Meta(p)][L[j]] # << >>
    <3>1. CASE j = idx[p]
      BY <1>0, <2>1, <2>2, <2>4, <3>1
    <3>2. CASE j # idx[p]
      BY <2>3, <2>5, <2>6, <3>2
    <3>. QED BY <3>1, <3>2
  <2>. QED BY <2>7
<1>4. CASE MakeMountpoint(p) \/ FsMount(p) \/ StatDevice(p) \/ AttachLoop(p) \/ Activate(p)
           \/ ConfirmHash(p) \/ ConfirmValidity(p) \/ MountDeviceFails(p) \/ UndoDevice(p)
           \/ AtomsDone(p) \/ WriteConfig(p)
  <2>1. pc[p] \in LoopSteps
    BY <1>4 DEF LoopSteps, MakeMountpoint, AtNextAtom, FsMount, StatDevice, AttachLoop, Activate, ConfirmHash, ConfirmValidity, MountDeviceFails, UndoDevice, AtomsDone, WriteConfig
  <2>2. mnt' = mnt /\ idx' = idx
    BY <1>4 DEF MakeMountpoint, FsMount, StatDevice, AttachLoop, Activate, ConfirmHash, ConfirmValidity, MountDeviceFails, UndoDevice, AtomsDone, WriteConfig, kernel, locals, FailMount
  <2>. QED BY <1>0, <2>1, <2>2
<1>. QED BY <1>1, <1>2, <1>3, <1>4 DEF Advances, MountPlainGivesUp

(* An invocation keeps its place by its own step.                          *)
LEMMA OwnPlace ==
  ASSUME SerialMounts, LocalsInv, PlaceInv, NEW p \in Procs, Run(p) \/ Crash(p)
  PROVE  PlaceOK(p)'
<1>0. /\ TypeOK /\ PlaceOK(p) /\ LocalsOK(p) /\ Meta(p) \in MetaDirs /\ Target(p) \in Targets
      /\ OneMolecule /\ LiveMoleculeKeepsMeta /\ Meta(p) = MetaOf[Target(p)]
      /\ pc \in [Procs -> Steps]
      /\ ovl \in [Targets -> Seq(Overlay)]
  BY TargetType DEF LocalsInv, PlaceInv, TypeOK, InvocationTypes, KernelTypes, Meta
<1>1. /\ cmd' = cmd
      /\ \A r \in Procs : Meta(r)' = Meta(r) /\ Image(r)' = Image(r)
      /\ \A r \in Procs \ {p} : (Mounting(r)' <=> Mounting(r)) /\ pc'[r] = pc[r]
  <2>1. cmd' = cmd /\ \A r \in Procs \ {p} : pc'[r] = pc[r]
    BY <1>0, Frame
  <2>2. \A r \in Procs \ {p} : Mounting(r)' <=> Mounting(r)
    BY <2>1 DEF Mounting
  <2>. QED BY <1>0, <2>1, <2>2, SameCommand
<1>2. ASSUME NEW t \in Targets, ovl[t] # << >> PROVE MetaOf[t] \in metadirs
  <2>1. ovl[t] = <<ovl[t][1]>>
    BY <1>0, <1>2 DEF OneMolecule
  <2>2. 1 \in DOMAIN ovl[t]
    <3>. DEFINE o == ovl[t][1]
    <3>. HIDE DEF o
    <3>1. 1 \in DOMAIN <<o>>
      OBVIOUS
    <3>. QED BY <2>1, <3>1 DEF o
  <2>. QED BY <1>0, <2>2 DEF LiveMoleculeKeepsMeta
<1>3. ASSUME Mounting(p)'
      PROVE  /\ NothingOn(Meta(p))'
             /\ \A q \in Procs \ {p} : Mounting(q)' => Meta(q) # Meta(p)
  <2>1. NothingOn(Meta(p)) /\ \A q \in Procs \ {p} : Mounting(q) => Meta(q) # Meta(p)
    <3>1. CASE Mounting(p)
      BY <1>0, <3>1 DEF PlaceOK
    <3>2. CASE ~Mounting(p)
      <4>1. Meta(p) \notin metadirs /\ \A q \in Procs \ {p} : Mounting(q) => Meta(q) # Meta(p)
        BY <1>0, <1>3, <3>2, Begins
      <4>. QED BY <1>2, <4>1 DEF NothingOn
    <3>. QED BY <3>1, <3>2
  <2>2. ~MountOverlay(p)
    BY <1>0, <1>3 DEF MountOverlay, Exit, Goto, Mounting
  <2>3. NothingOn(Meta(p))'
    BY <1>0, <1>1, <2>1, <2>2, NothingAppears DEF NothingOn
  <2>. QED BY <1>1, <2>1, <2>3
<1>4. ASSUME pc'[p] \in Releasing
      PROVE  /\ Meta(p) \in metadirs' /\ NothingOn(Meta(p))'
             /\ \A q \in Procs : Mounting(q)' => Meta(q) # Meta(p)
             /\ \A q \in Procs \ {p} : pc'[q] \in Releasing => Meta(q) # Meta(p)
  <2>0. ~Mounting(p)' /\ ~Cleanup(p) /\ ~RemoveMeta(p) /\ ~MountOverlay(p)
    <3>1. cmd[p].op = "umount"
      <4>1. pc[p] \in UmountSteps
        BY <1>0, <1>4, Becomes DEF Releasing, UmountTop
      <4>. QED BY <1>0, <4>1 DEF LocalsOK
    <3>2. ~Mounting(p)'
      BY <1>1, <3>1 DEF Mounting
    <3>3. ~Cleanup(p) /\ ~RemoveMeta(p) /\ ~MountOverlay(p)
      BY <1>0, <1>4 DEF Cleanup, RemoveMeta, MountOverlay, Exit, Goto, Releasing
    <3>. QED BY <3>2, <3>3
  <2>1. CASE pc[p] \in Releasing
    <3>1. /\ Meta(p) \in metadirs /\ NothingOn(Meta(p))
          /\ \A q \in Procs : Mounting(q) => Meta(q) # Meta(p)
          /\ \A q \in Procs \ {p} : pc[q] \in Releasing => Meta(q) # Meta(p)
      BY <1>0, <2>1 DEF PlaceOK
    <3>2. Meta(p) \in metadirs'
      BY <2>0, <3>1, Removes
    <3>3. NothingOn(Meta(p))'
      BY <1>0, <1>1, <2>0, <3>1, NothingAppears DEF NothingOn
    <3>. QED BY <1>1, <2>0, <3>1, <3>2, <3>3
  <2>2. CASE UmountTop(p)
    <3>1. /\ ovl[Target(p)] # << >> /\ ovl'[Target(p)] = << >>
          /\ \A t \in Targets : t # Target(p) => ovl'[t] = ovl[t]
      BY <1>0, <2>2, AfterUmount
    <3>2. Meta(p) \in metadirs'
      BY <1>0, <1>2, <2>0, <3>1, Removes
    <3>3. \A t \in Targets : MetaOf[t] = Meta(p) => ovl'[t] = << >>
      BY <1>0, <3>1 DEF OneMolecule
    <3>4. \A q \in Procs : Mounting(q) \/ pc[q] \in Releasing => Meta(q) # Meta(p)
      <4>1. \A q \in Procs : Mounting(q) \/ pc[q] \in Releasing => NothingOn(Meta(q))
        BY DEF PlaceInv, PlaceOK
      <4>. QED BY <1>0, <3>1, <4>1 DEF NothingOn
    <3>. QED BY <1>1, <2>0, <3>2, <3>3, <3>4 DEF NothingOn
  <2>. QED BY <1>0, <1>4, <2>1, <2>2, Becomes
<1>5. pc'[p] \in LoopSteps /\ ~MayGiveUp(p) => \A j \in 1 .. idx'[p] - 1 : mnt'[Meta(p)][Layers[Image(p)][j]] # << >>
  BY <1>0, OwnLayers
<1>6. pc'[p] = "mountOverlay" /\ cmd[p].over # "ro" => Meta(p) \in upper'
  <2>1. pc'[p] = "mountOverlay" => WriteConfig(p)
    BY <1>0, Becomes
  <2>. QED BY <2>1 DEF WriteConfig
<1>. QED BY <1>1, <1>3, <1>4, <1>5, <1>6 DEF PlaceOK

-----------------------------------------------------------------------------
(* The live molecules.                                                     *)

(* An overlay after the step was there before, or is that of a Mount.      *)
LEMMA WhichOverlay ==
  ASSUME LocalsInv, PlaceInv, NEW p \in Procs, Run(p) \/ Crash(p),
         NEW t \in Targets, NEW k \in DOMAIN ovl'[t]
  PROVE  \/ k \in DOMAIN ovl[t] /\ ovl'[t][k] = ovl[t][k]
         \/ MountOverlay(p) /\ t = Target(p) /\ ovl'[t][k] = NewOverlay(p)
<1>0. TypeOK /\ OneMolecule /\ PlaceOK(p) /\ LocalsOK(p)
  BY DEF LocalsInv, PlaceInv
<1>1. CASE ovl' = ovl
  BY <1>1
<1>2. CASE MountOverlay(p)
  <2>. DEFINE o == NewOverlay(p)
  <2>1. NothingOn(Meta(p))
    BY <1>0, <1>2, OverlayByMount DEF PlaceOK
  <2>2. /\ ovl'[Target(p)] = <<o>>
        /\ t # Target(p) => ovl'[t] = ovl[t]
    BY <1>0, <1>2, <2>1, AfterMount
  <2>. HIDE DEF o
  <2>3. \A j \in DOMAIN <<o>> : <<o>>[j] = o
    OBVIOUS
  <2>4. CASE t = Target(p)
    BY <1>2, <2>2, <2>3, <2>4 DEF o
  <2>. QED BY <2>2, <2>4
<1>3. CASE UmountTop(p)
  <2>1. /\ ovl'[Target(p)] = << >>
        /\ t # Target(p) => ovl'[t] = ovl[t]
    BY <1>0, <1>3, AfterUmount
  <2>. QED BY <2>1
<1>. QED BY <1>1, <1>2, <1>3, OverlayChanges

LEMMA KeepsMetaStep ==
  ASSUME LocalsInv, PlaceInv, NEW p \in Procs, Run(p) \/ Crash(p)
  PROVE  LiveMoleculeKeepsMeta'
<1>0. TypeOK /\ PlaceOK(p)
  BY DEF LocalsInv, PlaceInv
<1>. SUFFICES ASSUME NEW t \in Targets, NEW k \in DOMAIN ovl'[t]
              PROVE  /\ MetaOf[t] \in metadirs'
                     /\ ovl'[t][k].over # "ro" => MetaOf[t] \in upper'
  BY DEF LiveMoleculeKeepsMeta
<1>1. CASE k \in DOMAIN ovl[t] /\ ovl'[t][k] = ovl[t][k]
  <2>1. MetaOf[t] \in metadirs /\ (ovl'[t][k].over # "ro" => MetaOf[t] \in upper)
    BY <1>1 DEF PlaceInv, LiveMoleculeKeepsMeta
  <2>2. Cleanup(p) \/ RemoveMeta(p) => MetaOf[t] # Meta(p)
    <3>1. ovl[t] # << >>
      BY <1>1
    <3>. QED BY <3>1, RemovesAlone DEF NothingOn
  <2>. QED BY <2>1, <2>2, Removes
<1>2. CASE MountOverlay(p) /\ t = Target(p) /\ ovl'[t][k] = NewOverlay(p)
  <2>1. MetaOf[t] = Meta(p) /\ Meta(p) \in metadirs /\ metadirs' = metadirs /\ upper' = upper
        /\ pc[p] = "mountOverlay"
    BY <1>2 DEF MountOverlay, Meta, files
  <2>2. ovl'[t][k].over = cmd[p].over
    BY <1>2 DEF NewOverlay
  <2>. QED BY <1>0, <2>1, <2>2 DEF PlaceOK
<1>. QED BY <1>1, <1>2, WhichOverlay

LEMMA IntactStep ==
  ASSUME LocalsInv, PlaceInv, NEW p \in Procs, Run(p) \/ Crash(p)
  PROVE  LiveMoleculeIntact'
<1>0. /\ TypeOK /\ PlaceOK(p) /\ LocalsOK(p)
      /\ \A t \in Targets : ovl[t] \in Seq(Overlay) /\ MetaOf[t] \in MetaDirs
  BY WorldAssumption DEF LocalsInv, PlaceInv, TypeOK, KernelTypes
<1>. SUFFICES ASSUME NEW t \in Targets, NEW k \in DOMAIN ovl'[t],
                     NEW a \in ToSet(Layers[ovl'[t][k].image]) \ ovl'[t][k].gaps
              PROVE  mnt'[MetaOf[t]][a] # << >>
  BY DEF LiveMoleculeIntact
<1>1. CASE k \in DOMAIN ovl[t] /\ ovl'[t][k] = ovl[t][k]
  <2>0. a \in ToSet(Layers[ovl[t][k].image]) \ ovl[t][k].gaps /\ ovl[t] # << >>
    BY <1>1
  <2>1. mnt[MetaOf[t]][a] # << >>
    BY <1>1, <2>0 DEF PlaceInv, LiveMoleculeIntact
  <2>2. a \in Atoms
    <3>1. ovl[t][k] \in Overlay
      BY <1>0, <1>1, ElementOfSeq
    <3>2. Layers[ovl[t][k].image] \in Seq(Atoms)
      BY <3>1, WorldAssumption DEF Overlay
    <3>. QED BY <1>1, <3>2, ElementOfSeq, LenProperties DEF ToSet
  <2>3. pc[p] \in Releasing => MetaOf[t] # Meta(p)
    BY <2>0, RemovesAlone DEF NothingOn
  <2>. QED BY <1>0, <2>1, <2>2, <2>3, Unmounts
<1>2. CASE MountOverlay(p) /\ t = Target(p) /\ ovl'[t][k] = NewOverlay(p)
  <2>1. /\ MetaOf[t] = Meta(p) /\ mnt' = mnt /\ pc[p] = "mountOverlay"
        /\ ovl'[t][k].image = Image(p)
        /\ MayGiveUp(p) => mnt[Meta(p)][a] # << >>
    BY <1>2 DEF MountOverlay, Meta, NewOverlay
  <2>2. cmd[p] \in MountCmd /\ idx[p] = Len(Layers[Image(p)]) + 1
    BY <1>0, <2>1 DEF LocalsOK
  <2>3. Layers[Image(p)] \in Seq(Atoms) /\ Len(Layers[Image(p)]) \in Nat
    BY <1>0, <2>2, ImageType
  <2>4. PICK j \in 1 .. Len(Layers[Image(p)]) : a = Layers[Image(p)][j]
    BY <2>1, <2>3, LenProperties DEF ToSet
  <2>5. j \in 1 .. idx[p] - 1
    BY <2>2, <2>3
  <2>. QED BY <1>0, <2>1, <2>4, <2>5 DEF PlaceOK, LoopSteps
<1>. QED BY <1>1, <1>2, WhichOverlay

-----------------------------------------------------------------------------
(* The invariant.                                                          *)

LEMMA PlaceInitially ==
  ASSUME Init
  PROVE  PlaceInv
<1>1. pc = [p \in Procs |-> "start"] /\ ovl = [t \in Targets |-> << >>]
  BY DEF Init
<1>2. OneMolecule /\ LiveMoleculeKeepsMeta /\ LiveMoleculeIntact
  BY <1>1 DEF OneMolecule, LiveMoleculeKeepsMeta, LiveMoleculeIntact
<1>3. \A p \in Procs : PlaceOK(p)
  BY <1>1 DEF PlaceOK, Mounting, Releasing, LoopSteps
<1>. QED BY <1>2, <1>3 DEF PlaceInv

LEMMA PlaceInductive ==
  ASSUME SerialMounts, LocalsInv, PlaceInv, [Next]_vars
  PROVE  PlaceInv'
<1>1. CASE \E p \in Procs : Run(p) \/ Crash(p)
  <2>. PICK p \in Procs : Run(p) \/ Crash(p)
    BY <1>1
  <2>1. OneMolecule'
    BY OneMoleculeStep DEF LocalsInv, PlaceInv
  <2>2. LiveMoleculeKeepsMeta' /\ LiveMoleculeIntact'
    BY KeepsMetaStep, IntactStep
  <2>3. \A q \in Procs : PlaceOK(q)'
    BY OwnPlace, OthersPlace
  <2>. QED BY <2>1, <2>2, <2>3 DEF PlaceInv
<1>2. CASE (\E a \in Atoms : CorruptionFound(a)) \/ UNCHANGED vars
  <2>1. UNCHANGED <<pc, cmd, idx, lower, metadirs, upper, mnt, ovl>>
    BY <1>2 DEF CorruptionFound, invocation, locals, files, vars
  <2>2. OneMolecule' /\ LiveMoleculeKeepsMeta' /\ LiveMoleculeIntact'
    BY <2>1 DEF PlaceInv, OneMolecule, LiveMoleculeKeepsMeta, LiveMoleculeIntact
  <2>3. \A q \in Procs : PlaceOK(q)'
    BY <2>1 DEF PlaceInv, PlaceOK, Mounting, NothingOn, Meta, Target, Image
  <2>. QED BY <2>2, <2>3 DEF PlaceInv
<1>. QED BY <1>1, <1>2 DEF Next, Terminated

(* A metadata directory belongs to one molecule, or to one Mount or Umount *)
(* that makes or takes apart one.                                          *)
THEOREM PlaceInvariance ==
  ASSUME SerialMounts
  PROVE  Spec => []PlaceInv
<1>1. Init => PlaceInv
  BY PlaceInitially
<1>2. LocalsInv /\ PlaceInv /\ [Next]_vars => PlaceInv'
  BY PlaceInductive
<1>. QED BY <1>1, <1>2, LocalsInvariance, PTL DEF Spec

(* No step of any invocation, failed and killed ones included, unmounts a  *)
(* layer of a molecule that is on its target (molecule.go:238-251,         *)
(* 383-429).                                                               *)
THEOREM MoleculesStayIntact ==
  ASSUME SerialMounts
  PROVE  Spec => []LiveMoleculeIntact
<1>1. PlaceInv => LiveMoleculeIntact
  BY DEF PlaceInv
<1>. QED BY <1>1, PlaceInvariance, PTL

(* Nor does it remove the molecule's metadata directory or its upper       *)
(* directory (molecule.go:209-215, 242-251, 431-441).                      *)
THEOREM MoleculesKeepMeta ==
  ASSUME SerialMounts
  PROVE  Spec => []LiveMoleculeKeepsMeta
<1>1. PlaceInv => LiveMoleculeKeepsMeta
  BY DEF PlaceInv
<1>. QED BY <1>1, PlaceInvariance, PTL

-----------------------------------------------------------------------------
(* What is mounted below a metadata directory.                             *)

(* Only a Umount that has taken its overlay off, and a Mount at one of its *)
(* layers, change what is mounted, and below their own directory.          *)
LEMMA MountChanges ==
  ASSUME IndInv, NEW p \in Procs, Run(p) \/ Crash(p),
         NEW m \in MetaDirs, NEW a \in Atoms, mnt'[m][a] # mnt[m][a]
  PROVE  /\ m = Meta(p)
         /\ \/ pc[p] \in Releasing
            \/ Mounting(p) /\ pc[p] \in AtomSteps /\ a = Atom(p)
<1>0. TypeOK /\ LocalsOK(p) /\ KernelTypes /\ Meta(p) \in MetaDirs
  BY TargetType DEF IndInv, TypeOK
<1>1. MountDevice(p) \/ MountPlain(p) \/ MountPlainDies(p) \/ UmountAtom(p)
  BY Footprint DEF Touches, Activate, UndoDevice, MountOverlay, UmountTop, Deactivate
<1>2. CASE MountDevice(p) \/ MountPlain(p) \/ MountPlainDies(p)
  <2>1. pc[p] \in {"mountDevice", "mountPlain"}
    BY <1>2 DEF MountDevice, MountPlain, MountPlainDies
  <2>2. cmd[p].op = "mount" /\ Mounting(p)
    BY <1>0, <2>1 DEF LocalsOK, MountCmd, Mounting
  <2>3. Atom(p) \in Atoms
    BY <1>0, <2>1, AtomType
  <2>4. m = Meta(p) /\ a = Atom(p)
    BY <1>0, <1>2, <2>3 DEF MountDevice, MountPlain, MountPlainDies, KernelTypes
  <2>. QED BY <2>1, <2>2, <2>4
<1>3. CASE UmountAtom(p)
  <2>1. pc[p] = "nextLower" /\ Lower(p) \in Atoms
    BY <1>3 DEF UmountAtom, AtLower, MountedLower
  <2>2. m = Meta(p)
    BY <1>0, <1>3, <2>1 DEF UmountAtom, KernelTypes
  <2>. QED BY <2>1, <2>2 DEF Releasing
<1>. QED BY <1>1, <1>2, <1>3

(* os.RemoveAll leaves a directory in which something is mounted.          *)
LEMMA MountedStays ==
  ASSUME NEW p \in Procs, Run(p) \/ Crash(p), NEW m \in metadirs, MountedIn(m)
  PROVE  m \in metadirs'
<1>1. CASE Cleanup(p) \/ RemoveMeta(p)
  BY <1>1 DEF Cleanup, RemoveMeta, RemoveAll
<1>. QED BY <1>1, Removes

(* First part of OnlyLayers: the directory exists.                         *)
LEMMA DirectoryStep ==
  ASSUME IndInv, PlaceInv, OnlyLayers, NEW p \in Procs, Run(p) \/ Crash(p),
         NEW m \in MetaDirs, MountedIn(m)'
  PROVE  m \in metadirs'
<1>0. PlaceOK(p)
  BY DEF PlaceInv
<1>1. PICK a \in Atoms : mnt'[m][a] # << >>
  BY DEF MountedIn
<1>2. CASE mnt'[m][a] = mnt[m][a]
  <2>1. MountedIn(m)
    BY <1>1, <1>2 DEF MountedIn
  <2>2. m \in metadirs
    BY <2>1 DEF OnlyLayers
  <2>. QED BY <2>1, <2>2, MountedStays
<1>3. CASE mnt'[m][a] # mnt[m][a]
  <2>1. /\ m = Meta(p)
        /\ pc[p] \in Releasing \/ (Mounting(p) /\ pc[p] \in AtomSteps)
    BY <1>3, MountChanges
  <2>2. m \in metadirs
    <3>1. CASE pc[p] \in Releasing
      BY <1>0, <2>1, <3>1 DEF PlaceOK
    <3>2. CASE Mounting(p) /\ pc[p] \in AtomSteps
      BY <2>1, <3>2 DEF OnlyLayers
    <3>. QED BY <2>1, <3>1, <3>2
  <2>3. ~Cleanup(p) /\ ~RemoveMeta(p)
    BY <1>3 DEF Cleanup, RemoveMeta, kernel
  <2>. QED BY <2>2, <2>3, Removes
<1>. QED BY <1>2, <1>3

(* How a Mount passes the creation of its directory.                       *)
LEMMA PassesEnsureDir ==
  ASSUME TypeOK, NEW p \in Procs, Run(p) \/ Crash(p), Mounting(p)', pc'[p] # "ensureDir"
  PROVE  Mounting(p) /\ (pc[p] # "ensureDir" \/ EnsureDir(p))
<1>0. pc \in [Procs -> Steps] /\ cmd' = cmd
  BY Frame DEF TypeOK, InvocationTypes
<1>1. Mounting(p)
  BY <1>0, Becomes DEF StartMount, Goto, Exit, Mounting
<1>2. pc[p] = "ensureDir" => EnsureDir(p)
  <2>. SUFFICES ASSUME pc[p] = "ensureDir" PROVE EnsureDir(p)
    OBVIOUS
  <2>1. ~Crash(p)
    BY <1>0 DEF Crash, Exit, Goto, Mounting
  <2>2. BeforeLockStep(p) => EnsureDir(p)
    BY DEF BeforeLockStep, StartMount, StartUmount, MakeLock, MakeLockFails, Flock, FlockFails
  <2>3. ~VerityMountStep(p)
    BY DEF VerityMountStep, StatDevice, AttachLoop, AttachLoopFails, Activate, ActivateFails, ConfirmHash, ConfirmValidity, MountDevice, MountDeviceFails, UndoDevice, UndoLoop
  <2>4. ~MountStep(p)
    BY DEF MountStep, OverlayLowerDirs, AtNextAtom, RefuseAtom, ReuseMounted, MakeMountpoint, FsMount, FsMountFails, MountPlain, MountPlainGivesUp, MountPlainDies, MountPlainFails, AtomsDone, WriteConfig, WriteConfigFails, MountOverlay, MountOverlayFails, Cleanup
  <2>5. ~UmountStep(p)
    BY DEF UmountStep, FindOverlay, FindOverlayFails, UmountTop, UmountTopFails, AtLower, UmountAtom, UmountAtomFails, CheckUsed, CheckUsedFails, DeactivateFails, Deactivate, Detach, LowersDone, RemoveMeta, RemoveMetaFails
  <2>. QED BY <2>1, <2>2, <2>3, <2>4, <2>5 DEF Run
<1>. QED BY <1>1, <1>2

(* Second part of OnlyLayers: a Mount's directory has only its layers.     *)
LEMMA MountingStep ==
  ASSUME SerialMounts, IndInv, PlaceInv, OnlyLayers, NEW p \in Procs, Run(p) \/ Crash(p),
         NEW q \in Procs, Mounting(q)'
  PROVE  /\ pc'[q] # "ensureDir" => Meta(q) \in metadirs'
         /\ \A a \in Atoms : mnt'[Meta(q)][a] # << >> => a \in ToSet(Layers[Image(q)])
<1>0. /\ LocalsInv /\ TypeOK /\ PlaceOK(p) /\ LocalsOK(p) /\ Meta(q) \in MetaDirs
      /\ pc \in [Procs -> Steps] /\ cmd' = cmd
      /\ q # p => pc'[q] = pc[q]
  BY TargetType, Frame DEF IndInv, LocalsInv, PlaceInv, TypeOK, InvocationTypes
<1>1. q # p => Mounting(q)
  BY <1>0 DEF Mounting
<1>2. ASSUME pc'[q] # "ensureDir" PROVE Meta(q) \in metadirs'
  <2>1. Mounting(q)
    BY <1>0, <1>1, <1>2, PassesEnsureDir
  <2>2. CASE q = p /\ EnsureDir(p)
    BY <1>0, <2>2 DEF EnsureDir, Exit, Goto, Mounting
  <2>3. CASE pc[q] # "ensureDir"
    <3>1. Meta(q) \in metadirs
      BY <2>1, <2>3 DEF OnlyLayers
    <3>2. ASSUME Cleanup(p) \/ RemoveMeta(p) PROVE Meta(q) # Meta(p)
      <4>1. q # p
        BY <1>0, <3>2 DEF Cleanup, RemoveMeta, Exit, Goto, Mounting
      <4>. QED BY <1>0, <2>1, <3>2, <4>1, RemovesAlone
    <3>. QED BY <3>1, <3>2, Removes
  <2>. QED BY <1>0, <1>2, <2>2, <2>3, PassesEnsureDir
<1>3. ASSUME NEW a \in Atoms, mnt'[Meta(q)][a] # << >>
      PROVE  a \in ToSet(Layers[Image(q)])
  <2>1. CASE mnt'[Meta(q)][a] = mnt[Meta(q)][a]
    <3>1. CASE Mounting(q)
      BY <1>3, <2>1, <3>1 DEF OnlyLayers
    <3>2. CASE ~Mounting(q)
      <4>1. q = p /\ Meta(p) \notin metadirs
        BY <1>0, <1>1, <3>2, Begins
      <4>2. ~MountedIn(Meta(p))
        BY <1>0, <4>1 DEF OnlyLayers
      <4>. QED BY <1>3, <2>1, <4>1, <4>2 DEF MountedIn
    <3>. QED BY <3>1, <3>2
  <2>2. CASE mnt'[Meta(q)][a] # mnt[Meta(q)][a]
    <3>1. /\ Meta(q) = Meta(p)
          /\ pc[p] \in Releasing \/ (Mounting(p) /\ pc[p] \in AtomSteps /\ a = Atom(p))
      BY <1>0, <2>2, MountChanges
    <3>2. pc[p] \notin Releasing
      <4>1. CASE q = p
        BY <1>0, <4>1 DEF PlaceOK, Mounting, Releasing
      <4>2. CASE q # p
        BY <1>0, <1>1, <3>1, <4>2, RemovesAlone
      <4>. QED BY <4>1, <4>2
    <3>3. q = p
      BY <1>0, <1>1, <3>1, <3>2 DEF PlaceOK
    <3>4. cmd[p] \in MountCmd /\ idx[p] \in 1 .. Len(Layers[Image(p)])
      <4>1. cmd[p] \in MountCmd
        BY <1>0, <3>1, <3>2 DEF LocalsOK
      <4>. QED BY <1>0, <3>1, <3>2, <4>1, ImageType DEF LocalsOK, LoopSteps, TypeOK, LocalTypes
    <3>5. Layers[Image(p)] \in Seq(Atoms) /\ a = Layers[Image(p)][idx[p]]
      BY <1>0, <3>1, <3>2, <3>4, ImageType DEF Atom
    <3>. QED BY <3>3, <3>4, <3>5, LenProperties DEF ToSet
  <2>. QED BY <2>1, <2>2
<1>. QED BY <1>2, <1>3

(* Third part of OnlyLayers: so does the directory of a molecule.          *)
LEMMA MoleculeStep ==
  ASSUME IndInv, PlaceInv, OnlyLayers, NEW p \in Procs, Run(p) \/ Crash(p), TypeOK',
         OneMolecule', NEW t \in Targets, ovl'[t] # << >>, NEW a \in Atoms
  PROVE  /\ mnt'[MetaOf[t]][a] # << >> => a \in ToSet(Layers[ovl'[t][1].image])
         /\ a \in ovl'[t][1].pins => mnt'[MetaOf[t]][a] = <<"dm">>
<1>0. /\ LocalsInv /\ TypeOK /\ PlaceOK(p) /\ LocalsOK(p) /\ MountsOK
      /\ MetaOf[t] \in MetaDirs /\ Meta(p) \in MetaDirs
  BY TargetType, WorldAssumption DEF IndInv, LocalsInv, PlaceInv
<1>1. 1 \in DOMAIN ovl'[t]
  <2>1. ovl'[t] \in Seq(Overlay)
    BY DEF TypeOK, KernelTypes
  <2>. QED BY <2>1, EmptySeq, LenProperties
<1>2. CASE 1 \in DOMAIN ovl[t] /\ ovl'[t][1] = ovl[t][1]
  <2>1. ovl[t] # << >>
    BY <1>2
  <2>2. mnt'[MetaOf[t]][a] = mnt[MetaOf[t]][a]
    <3>1. pc[p] \in Releasing \/ Mounting(p) => MetaOf[t] # Meta(p)
      BY <1>0, <2>1 DEF PlaceOK, NothingOn
    <3>. QED BY <1>0, <3>1, MountChanges
  <2>. QED BY <1>2, <2>1, <2>2 DEF OnlyLayers
<1>3. CASE MountOverlay(p) /\ t = Target(p) /\ ovl'[t][1] = NewOverlay(p)
  <2>1. /\ MetaOf[t] = Meta(p) /\ mnt' = mnt /\ ovl'[t][1].image = Image(p)
        /\ a \in ovl'[t][1].pins => DevOnTop(Meta(p), a)
    BY <1>3 DEF MountOverlay, Meta, NewOverlay
  <2>2. Mounting(p)
    BY <1>0, <1>3, OverlayByMount
  <2>3. DevOnTop(Meta(p), a) => mnt[Meta(p)][a] = <<"dm">>
    BY <1>0, Stacks DEF MountsOK, DevOnTop
  <2>. QED BY <2>1, <2>2, <2>3 DEF OnlyLayers
<1>. QED BY <1>0, <1>1, <1>2, <1>3, WhichOverlay

LEMMA OnlyLayersStep ==
  ASSUME CommonLock, SerialMounts, IndInv, PlaceInv, OnlyLayers, [Next]_vars
  PROVE  OnlyLayers'
<1>1. CASE \E p \in Procs : Run(p) \/ Crash(p)
  <2>. PICK p \in Procs : Run(p) \/ Crash(p)
    BY <1>1
  <2>1. TypeOK' /\ OneMolecule' /\ TypeOK
    BY Inductive, PlaceInductive DEF IndInv, LocalsInv, PlaceInv
  <2>2. \A m \in MetaDirs : MountedIn(m)' => m \in metadirs'
    BY DirectoryStep
  <2>3. \A q \in Procs : Meta(q)' = Meta(q) /\ Image(q)' = Image(q)
    BY <2>1, SameCommand
  <2>4. ASSUME NEW q \in Procs, Mounting(q)'
        PROVE  /\ pc'[q] # "ensureDir" => Meta(q)' \in metadirs'
               /\ \A a \in Atoms : mnt'[Meta(q)'][a] # << >> => a \in ToSet(Layers[Image(q)'])
    BY <2>3, <2>4, MountingStep
  <2>5. \A t \in Targets : ovl'[t] # << >> => \A a \in Atoms :
          /\ mnt'[MetaOf[t]][a] # << >> => a \in ToSet(Layers[ovl'[t][1].image])
          /\ a \in ovl'[t][1].pins => mnt'[MetaOf[t]][a] = <<"dm">>
    BY <2>1, MoleculeStep
  <2>. QED BY <2>2, <2>4, <2>5 DEF OnlyLayers
<1>2. CASE (\E a \in Atoms : CorruptionFound(a)) \/ UNCHANGED vars
  <2>1. UNCHANGED <<pc, cmd, metadirs, mnt, ovl>>
    BY <1>2 DEF CorruptionFound, invocation, locals, files, vars
  <2>. QED BY <2>1 DEF OnlyLayers, MountedIn, Mounting, Meta, Target, Image
<1>. QED BY <1>1, <1>2 DEF Next, Terminated

LEMMA OnlyLayersInitially ==
  ASSUME Init
  PROVE  OnlyLayers
<1>1. /\ mnt = [m \in MetaDirs |-> [a \in Atoms |-> << >>]]
      /\ ovl = [t \in Targets |-> << >>] /\ pc = [p \in Procs |-> "start"]
  BY DEF Init
<1>2. (\A m \in MetaDirs : ~MountedIn(m)) /\ (\A p \in Procs : ~Mounting(p))
  BY <1>1 DEF MountedIn, Mounting
<1>. QED BY <1>1, <1>2 DEF OnlyLayers

(* Below the metadata directory of a molecule, or of the Mount that makes  *)
(* one, nothing but its layers is mounted (molecule.go:63-140, 242-251).   *)
THEOREM OnlyLayersInvariance ==
  ASSUME CommonLock, SerialMounts
  PROVE  Spec => []OnlyLayers
<1>1. Init => OnlyLayers
  BY OnlyLayersInitially
<1>2. IndInv /\ PlaceInv /\ OnlyLayers /\ [Next]_vars => OnlyLayers'
  BY OnlyLayersStep
<1>. QED BY <1>1, <1>2, Invariance, PlaceInvariance, PTL DEF Spec

-----------------------------------------------------------------------------
(* What nobody works on.                                                   *)

LEMMA AbandonedStep ==
  ASSUME SerialMounts, LocalsInv, PlaceInv, [Next]_vars, NEW m \in MetaDirs, Abandoned(m)
  PROVE  Abandoned(m)'
<1>0. TypeOK
  BY DEF LocalsInv
<1>1. CASE \E p \in Procs : Run(p) \/ Crash(p)
  <2>. PICK p \in Procs : Run(p) \/ Crash(p)
    BY <1>1
  <2>1. /\ PlaceOK(p) /\ LocalsOK(p) /\ Target(p) \in Targets /\ Meta(p) = MetaOf[Target(p)]
        /\ \A q \in Procs : Meta(q)' = Meta(q)
        /\ \A q \in Procs \ {p} : pc'[q] = pc[q] /\ (Mounting(q)' <=> Mounting(q))
    <3>1. cmd' = cmd /\ \A q \in Procs \ {p} : pc'[q] = pc[q]
      BY <1>0, Frame
    <3>2. \A q \in Procs \ {p} : Mounting(q)' <=> Mounting(q)
      BY <3>1 DEF Mounting
    <3>. QED BY <1>0, <3>1, <3>2, SameCommand, TargetType DEF LocalsInv, PlaceInv, Meta
  <2>2. Cleanup(p) \/ RemoveMeta(p) \/ MountOverlay(p) => Meta(p) # m
    <3>1. MountOverlay(p) => Mounting(p)
      BY <2>1, OverlayByMount
    <3>2. Cleanup(p) => Mounting(p)
      BY <2>1 DEF Cleanup, LocalsOK, Mounting, MountCmd
    <3>3. RemoveMeta(p) => pc[p] \in Releasing
      BY DEF RemoveMeta, Releasing
    <3>. QED BY <3>1, <3>2, <3>3 DEF Abandoned
  <2>3. m \in metadirs'
    BY <2>2, Removes DEF Abandoned
  <2>4. NothingOn(m)'
    BY <1>0, <2>2, NothingAppears DEF Abandoned
  <2>5. ASSUME Meta(p) = m
        PROVE  ~Mounting(p)' /\ pc'[p] \notin Releasing
    <3>1. ~Mounting(p) /\ pc[p] \notin Releasing
      BY <2>5 DEF Abandoned
    <3>2. ~Mounting(p)'
      BY <1>0, <2>5, <3>1, Begins DEF Abandoned
    <3>3. ~UmountTop(p)
      BY <2>1, <2>5 DEF UmountTop, Abandoned, NothingOn
    <3>. QED BY <1>0, <3>1, <3>2, <3>3, Becomes
  <2>6. \A q \in Procs : Meta(q)' = m => ~Mounting(q)' /\ pc'[q] \notin Releasing
    BY <2>1, <2>5 DEF Abandoned
  <2>. QED BY <2>3, <2>4, <2>6 DEF Abandoned
<1>2. CASE (\E a \in Atoms : CorruptionFound(a)) \/ UNCHANGED vars
  <2>1. UNCHANGED <<pc, cmd, metadirs, ovl>>
    BY <1>2 DEF CorruptionFound, invocation, locals, files, vars
  <2>. QED BY <2>1 DEF Abandoned, NothingOn, Mounting, Meta, Target
<1>. QED BY <1>1, <1>2 DEF Next, Terminated

(* A place that a killed or failed invocation left behind stays as it is:  *)
(* no Mount uses it and no Umount removes it (molecule.go:209, 362-373).   *)
THEOREM AbandonedForEver ==
  ASSUME SerialMounts
  PROVE  Spec => AbandonedStays
<1>1. LocalsInv /\ PlaceInv /\ [Next]_vars => \A m \in MetaDirs : Abandoned(m) => Abandoned(m)'
  BY AbandonedStep
<1>. QED BY <1>1, LocalsInvariance, PlaceInvariance, PTL DEF Spec, AbandonedStays
=============================================================================

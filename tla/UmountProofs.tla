---------------------------- MODULE UmountProofs ----------------------------
(***************************************************************************)
(* Proofs about what is taken down, for any number of invocations,         *)
(* molecules, layers and images, provided that all invocations have one    *)
(* lock directory (CommonLock): what a Umount that reports success has     *)
(* done, with any failures, kills and corruption; and that without these   *)
(* (Undisturbed), and with one Mount at a time for a metadata directory    *)
(* (SerialMounts), nothing leaks and no Umount stops halfway.              *)
(***************************************************************************)
EXTENDS PlaceProofs, FiniteSetTheorems

USE DEF Critical, MountSteps, AtomSteps, UmountSteps, BeforeLock, Steps, Final

(* The steps of a Umount that goes on with the layers.                     *)
GoesOn(p) ==
  \/ UmountTop(p) \/ UmountAtom(p) \/ CheckUsed(p) \/ DeactivateFails(p)
  \/ Deactivate(p) \/ Detach(p) \/ LowersDone(p)

LEMMA LeavesRelease ==
  ASSUME TypeOK, NEW p \in Procs, Run(p) \/ Crash(p), ~GoesOn(p)
  PROVE  pc'[p] \notin Releasing
<1>0. pc \in [Procs -> Steps]
  BY DEF TypeOK, InvocationTypes
<1>. USE <1>0 DEF Exit, FailMount, Goto, Releasing, GoesOn
<1>1. CASE BeforeLockStep(p)
  BY <1>1 DEF BeforeLockStep, StartMount, StartUmount, EnsureDir, MakeLock, MakeLockFails, Flock, FlockFails
<1>2. CASE VerityMountStep(p)
  BY <1>2 DEF VerityMountStep, StatDevice, AttachLoop, AttachLoopFails, Activate, ActivateFails, ConfirmHash, ConfirmValidity, MountDevice, MountDeviceFails, UndoDevice, UndoLoop
<1>3. CASE MountStep(p)
  BY <1>3 DEF MountStep, OverlayLowerDirs, AtNextAtom, RefuseAtom, ReuseMounted, MakeMountpoint, FsMount, FsMountFails, MountPlain, MountPlainGivesUp, MountPlainDies, MountPlainFails, AtomsDone, WriteConfig, WriteConfigFails, MountOverlay, MountOverlayFails, Cleanup
<1>4. CASE UmountStep(p)
  BY <1>4 DEF UmountStep, FindOverlay, FindOverlayFails, UmountTopFails, UmountAtomFails, CheckUsedFails, RemoveMeta, RemoveMetaFails
<1>5. CASE Crash(p)
  BY <1>5 DEF Crash
<1>. QED BY <1>1, <1>2, <1>3, <1>4, <1>5 DEF Run

(* While a Umount is at the layers no other invocation has the lock.       *)
LEMMA OthersUmount ==
  ASSUME IndInv, NEW p \in Procs, Run(p) \/ Crash(p), NEW q \in Procs, q # p, UmountOK(q)
  PROVE  UmountOK(q)'
<1>1. /\ pc'[q] = pc[q] /\ idx'[q] = idx[q] /\ lower'[q] = lower[q] /\ cmd' = cmd
      /\ pc[q] \in Critical => pc[p] \notin Critical
  BY Frame DEF IndInv, Exclusion
<1>2. Meta(q)' = Meta(q) /\ Target(q)' = Target(q) /\ Lower(q)' = Lower(q)
  BY <1>1 DEF Meta, Target, Lower
<1>3. CASE pc[q] \notin Releasing \cup {"umountTop"}
  BY <1>1, <1>3 DEF UmountOK, Releasing, LowerSteps
<1>4. CASE pc[q] \in Releasing \cup {"umountTop"}
  <2>1. UNCHANGED <<dm, mnt, ovl>>
    BY <1>1, <1>4, OutsideTouchesNothing DEF Releasing
  <2>. QED BY <1>1, <1>2, <2>1 DEF UmountOK, Present
<1>. QED BY <1>3, <1>4

LEMMA OwnUmount ==
  ASSUME IndInv, NEW p \in Procs, Run(p) \/ Crash(p), UmountOK(p)
  PROVE  UmountOK(p)'
<1>0. /\ TypeOK /\ LocalsOK(p) /\ MountsOK /\ KernelTypes /\ Meta(p) \in MetaDirs
      /\ pc \in [Procs -> Steps] /\ idx \in [Procs -> Nat]
      /\ lower[p] \in Seq(Atoms \cup {Stray}) /\ Len(lower[p]) \in Nat
  BY TargetType, LenProperties DEF IndInv, TypeOK, InvocationTypes, LocalTypes
<1>1. cmd' = cmd /\ Meta(p)' = Meta(p) /\ Target(p)' = Target(p)
  BY <1>0, Frame DEF Meta, Target
<1>2. CASE ~GoesOn(p)
  <2>1. pc'[p] \notin Releasing
    BY <1>0, <1>2, LeavesRelease
  <2>2. pc'[p] = "umountTop" =>
          ovl'[Target(p)] # << >> /\ lower'[p] = OverlayLower(Head(ovl'[Target(p)]))
    <3>1. pc'[p] = "umountTop" => FindOverlay(p) /\ ovl[Target(p)] # << >>
      BY <1>0, Becomes
    <3>2. lower \in [Procs -> Seq(Atoms \cup {Stray})]
      BY <1>0 DEF TypeOK, LocalTypes
    <3>. QED BY <3>1, <3>2 DEF FindOverlay, kernel
  <2>. QED BY <1>1, <2>1, <2>2 DEF UmountOK, Releasing, LowerSteps
<1>3. CASE UmountTop(p)
  <2>1. pc'[p] = "nextLower" /\ idx'[p] = 1 /\ lower' = lower
    BY <1>0, <1>3 DEF UmountTop, Goto
  <2>. QED BY <1>0, <2>1 DEF UmountOK, LowerSteps
<1>4. CASE UmountAtom(p)
  <2>1. /\ pc[p] = "nextLower" /\ idx[p] <= Len(lower[p]) /\ Lower(p) \in Atoms
        /\ mnt[Meta(p)][Lower(p)] # << >> /\ lower' = lower
        /\ \/ pc'[p] = "checkUsed" /\ idx' = idx
           \/ pc'[p] = "nextLower" /\ idx'[p] = idx[p] + 1
    BY <1>0, <1>4 DEF UmountAtom, AtLower, MountedLower, Goto
  <2>2. Front(mnt[Meta(p)][Lower(p)]) = << >>
    BY <1>0, <2>1, Stacks DEF MountsOK
  <2>3. mnt' = [mnt EXCEPT ![Meta(p)][Lower(p)] = << >>] /\ << >> \in Seq({"dm", "plain"})
    BY <1>4, <2>2, <1>0, <2>1 DEF UmountAtom, KernelTypes
  <2>4. \A b \in Atoms : mnt'[Meta(p)][b] = IF b = Lower(p) THEN << >> ELSE mnt[Meta(p)][b]
    BY <1>0, <2>1, <2>3, MntUpdate
  <2>5. \A j \in 1 .. idx[p] : lower[p][j] \in Atoms /\ mnt'[Meta(p)][lower[p][j]] = << >>
    <3>1. \A j \in 1 .. idx[p] - 1 : lower[p][j] \in Atoms /\ mnt[Meta(p)][lower[p][j]] = << >>
      BY <2>1 DEF UmountOK, Releasing
    <3>2. lower[p][idx[p]] \in Atoms /\ mnt'[Meta(p)][lower[p][idx[p]]] = << >>
      BY <2>1, <2>4 DEF Lower
    <3>3. \A j \in 1 .. idx[p] : j = idx[p] \/ j \in 1 .. idx[p] - 1
      BY <1>0
    <3>. QED BY <2>4, <3>1, <3>2, <3>3
  <2>6. idx[p] \in Nat /\ idx[p] >= 1 /\ Lower(p)' = lower[p][idx'[p]]
    BY <1>0, <2>1 DEF LocalsOK, Releasing, LowerSteps, Lower
  <2>7. CASE pc'[p] = "checkUsed" /\ idx' = idx
    BY <1>0, <1>1, <2>1, <2>5, <2>6, <2>7 DEF UmountOK, Releasing, LowerSteps
  <2>8. CASE pc'[p] = "nextLower" /\ idx'[p] = idx[p] + 1
    <3>1. idx'[p] - 1 = idx[p] /\ idx'[p] \in 1 .. Len(lower[p]) + 1
      BY <1>0, <2>1, <2>6, <2>8
    <3>. QED BY <1>1, <2>1, <2>5, <2>8, <3>1 DEF UmountOK, LowerSteps
  <2>. QED BY <2>1, <2>7, <2>8
<1>5. CASE CheckUsed(p) \/ Detach(p)
  <2>1. /\ pc[p] \in LowerSteps /\ UNCHANGED <<dm, mnt>>
        /\ \/ pc'[p] = "deactivate" /\ idx' = idx /\ lower' = lower
           \/ pc'[p] = "nextLower" /\ idx'[p] = idx[p] + 1 /\ lower' = lower
           \/ pc'[p] = "err"
    <3>1. CASE CheckUsed(p)
      <4>1. pc[p] = "checkUsed" /\ UNCHANGED <<lower, dm, mnt>>
        BY <3>1 DEF CheckUsed, kernel
      <4>2. \/ pc'[p] = "deactivate" /\ idx' = idx
            \/ pc'[p] = "nextLower" /\ idx'[p] = idx[p] + 1
        BY <1>0, <3>1 DEF CheckUsed, Goto
      <4>. QED BY <4>1, <4>2 DEF LowerSteps
    <3>2. CASE Detach(p)
      <4>1. pc[p] = "detach" /\ UNCHANGED <<dm, mnt>>
        BY <3>2 DEF Detach
      <4>2. \/ pc'[p] = "nextLower" /\ idx'[p] = idx[p] + 1 /\ lower' = lower
            \/ pc'[p] = "err"
        BY <1>0, <3>2 DEF Detach, Goto, Exit
      <4>. QED BY <4>1, <4>2 DEF LowerSteps
    <3>. QED BY <1>5, <3>1, <3>2
  <2>2. idx[p] >= 1 /\ idx[p] <= Len(lower[p]) /\ Lower(p) = lower[p][idx[p]] /\ Lower(p) \in Atoms
    BY <1>0, <2>1 DEF LocalsOK, Releasing, LowerSteps, Lower
  <2>3. \A j \in 1 .. idx[p] : lower[p][j] \in Atoms /\ mnt[Meta(p)][lower[p][j]] = << >>
    <3>1. \A j \in 1 .. idx[p] : j = idx[p] \/ j \in 1 .. idx[p] - 1
      BY <1>0
    <3>. QED BY <2>1, <2>2, <3>1 DEF UmountOK, Releasing, LowerSteps
  <2>4. CASE pc'[p] = "deactivate" /\ idx' = idx /\ lower' = lower
    <3>1. Lower(p)' = Lower(p)
      BY <2>1, <2>4 DEF Lower
    <3>. QED BY <1>0, <1>1, <2>1, <2>2, <2>3, <2>4, <3>1 DEF UmountOK, LowerSteps
  <2>5. CASE pc'[p] = "nextLower" /\ idx'[p] = idx[p] + 1 /\ lower' = lower
    <3>1. idx'[p] - 1 = idx[p] /\ idx'[p] \in 1 .. Len(lower[p]) + 1
      BY <1>0, <2>2, <2>5
    <3>. QED BY <1>1, <2>1, <2>3, <2>5, <3>1 DEF UmountOK, LowerSteps
  <2>6. CASE pc'[p] = "err"
    BY <2>6 DEF UmountOK, Releasing, LowerSteps
  <2>. QED BY <2>1, <2>4, <2>5, <2>6
<1>6. CASE DeactivateFails(p)
  <2>1. /\ UNCHANGED <<dm, mnt, ovl>>
        /\ UNCHANGED <<pc, idx, lower>> \/ pc'[p] = "err"
    BY <1>0, <1>6 DEF DeactivateFails, Exit, Goto, kernel
  <2>2. CASE UNCHANGED <<pc, idx, lower>>
    BY <1>1, <2>1, <2>2 DEF UmountOK, Present, Lower
  <2>3. CASE pc'[p] = "err"
    BY <2>3 DEF UmountOK, Releasing, LowerSteps
  <2>. QED BY <2>1, <2>2, <2>3
<1>7. CASE Deactivate(p)
  <2>1. /\ pc[p] = "deactivate" /\ pc'[p] = "detach" /\ UNCHANGED <<idx, lower, mnt>>
        /\ dm' = [dm EXCEPT ![Lower(p)] = NoDevice]
    BY <1>0, <1>7 DEF Deactivate, Goto
  <2>2. Lower(p) \in Atoms /\ Lower(p)' = Lower(p)
    BY <1>0, <2>1 DEF LocalsOK, LowerSteps, Lower
  <2>3. ~Present(Lower(p))'
    BY <1>0, <2>1, <2>2 DEF Present, KernelTypes
  <2>. QED BY <1>1, <2>1, <2>2, <2>3 DEF UmountOK, Releasing, LowerSteps
<1>8. CASE LowersDone(p)
  <2>1. /\ pc[p] = "nextLower" /\ pc'[p] = "removeMeta" /\ idx[p] > Len(lower[p])
        /\ UNCHANGED <<idx, lower, mnt>>
    BY <1>0, <1>8 DEF LowersDone, Goto, locals, kernel
  <2>2. idx[p] \in 1 .. Len(lower[p]) + 1
    BY <1>0, <2>1 DEF LocalsOK, Releasing
  <2>3. idx[p] = Len(lower[p]) + 1
    BY <1>0, <2>1, <2>2
  <2>. QED BY <1>1, <2>1, <2>2, <2>3 DEF UmountOK, Releasing, LowerSteps
<1>. QED BY <1>2, <1>3, <1>4, <1>5, <1>6, <1>7, <1>8 DEF GoesOn

LEMMA UmountInductive ==
  ASSUME IndInv, UmountInv, [Next]_vars
  PROVE  UmountInv'
<1>1. CASE \E p \in Procs : Run(p) \/ Crash(p)
  <2>. PICK p \in Procs : Run(p) \/ Crash(p)
    BY <1>1
  <2>1. \A q \in Procs : UmountOK(q)'
    BY OwnUmount, OthersUmount DEF UmountInv
  <2>. QED BY <2>1 DEF UmountInv
<1>2. CASE (\E a \in Atoms : CorruptionFound(a)) \/ UNCHANGED vars
  <2>1. UNCHANGED <<pc, cmd, idx, lower, dm, mnt, ovl>>
    BY <1>2 DEF CorruptionFound, invocation, locals, vars
  <2>. QED BY <2>1 DEF UmountInv, UmountOK, Present, Lower, Meta, Target
<1>. QED BY <1>1, <1>2 DEF Next, Terminated

(* At each step of a Umount what it has passed is done.                    *)
THEOREM UmountInvariance ==
  ASSUME CommonLock
  PROVE  Spec => []UmountInv
<1>1. Init => UmountInv
  <2>1. Init => \A p \in Procs : pc[p] = "start"
    BY DEF Init
  <2>. QED BY <2>1 DEF UmountInv, UmountOK, Releasing, LowerSteps
<1>2. IndInv /\ UmountInv /\ [Next]_vars => UmountInv'
  BY UmountInductive
<1>. QED BY <1>1, <1>2, Invariance, PTL DEF Spec

(* The step that ends a Umount, and the two that go to the next layer.     *)
LEMMA Releases ==
  ASSUME IndInv, UmountInv, [Next]_vars, NEW p \in Procs
  PROVE  /\ pc[p] = "removeMeta" /\ pc'[p] = "ok" =>
              /\ Meta(p) \notin metadirs'
              /\ \A a \in ToSet(lower[p]) : mnt'[Meta(p)][a] = << >>
         /\ pc[p] \in {"checkUsed", "detach"} /\ pc'[p] = "nextLower" =>
              (Present(Lower(p)) => DevBusy(Lower(p)))
<1>0. TypeOK /\ UmountOK(p) /\ LocalsOK(p) /\ pc \in [Procs -> Steps]
      /\ lower[p] \in Seq(Atoms \cup {Stray}) /\ Len(lower[p]) \in Nat
  BY LenProperties DEF IndInv, UmountInv, TypeOK, InvocationTypes, LocalTypes
<1>1. ASSUME pc[p] \in {"removeMeta", "checkUsed", "detach"}, pc'[p] \in {"ok", "nextLower"}
      PROVE  RemoveMeta(p) \/ CheckUsed(p) \/ Detach(p)
  <2>1. Run(p) \/ Crash(p)
    <3>1. ASSUME NEW q \in Procs, q # p, Run(q) \/ Crash(q) PROVE pc'[p] = pc[p]
      BY <1>0, <3>1, Frame
    <3>2. (\E a \in Atoms : CorruptionFound(a)) \/ UNCHANGED vars => pc'[p] = pc[p]
      BY DEF CorruptionFound, invocation, vars
    <3>. QED BY <1>1, <3>1, <3>2 DEF Next, Terminated
  <2>2. ~Crash(p)
    BY <1>0, <1>1 DEF Crash, Exit, Goto
  <2>3. ~BeforeLockStep(p)
    BY <1>1 DEF BeforeLockStep, StartMount, StartUmount, EnsureDir, MakeLock, MakeLockFails, Flock, FlockFails
  <2>4. ~VerityMountStep(p)
    BY <1>1 DEF VerityMountStep, StatDevice, AttachLoop, AttachLoopFails, Activate, ActivateFails, ConfirmHash, ConfirmValidity, MountDevice, MountDeviceFails, UndoDevice, UndoLoop
  <2>5. ~MountStep(p)
    BY <1>1 DEF MountStep, OverlayLowerDirs, AtNextAtom, RefuseAtom, ReuseMounted, MakeMountpoint, FsMount, FsMountFails, MountPlain, MountPlainGivesUp, MountPlainDies, MountPlainFails, AtomsDone, WriteConfig, WriteConfigFails, MountOverlay, MountOverlayFails, Cleanup
  <2>6. UmountStep(p) => RemoveMeta(p) \/ CheckUsed(p) \/ Detach(p)
    BY <1>0, <1>1 DEF UmountStep, FindOverlay, FindOverlayFails, UmountTop, UmountTopFails, AtLower, UmountAtom, UmountAtomFails, CheckUsedFails, DeactivateFails, Deactivate, LowersDone, RemoveMetaFails, Exit, Goto
  <2>. QED BY <2>1, <2>2, <2>3, <2>4, <2>5, <2>6 DEF Run
<1>2. ASSUME pc[p] = "removeMeta", pc'[p] = "ok"
      PROVE  /\ Meta(p) \notin metadirs'
             /\ \A a \in ToSet(lower[p]) : mnt'[Meta(p)][a] = << >>
  <2>1. RemoveMeta(p)
    BY <1>1, <1>2 DEF CheckUsed, Detach
  <2>2. Meta(p) \notin metadirs' /\ mnt' = mnt
    BY <1>0, <1>2, <2>1 DEF RemoveMeta, RemoveAll, Exit, Goto, kernel
  <2>3. \A a \in ToSet(lower[p]) : \E j \in 1 .. Len(lower[p]) : a = lower[p][j]
    BY <1>0, LenProperties DEF ToSet
  <2>4. \A j \in 1 .. Len(lower[p]) : mnt[Meta(p)][lower[p][j]] = << >>
    BY <1>0, <1>2 DEF UmountOK, Releasing
  <2>. QED BY <2>2, <2>3, <2>4
<1>3. ASSUME pc[p] \in {"checkUsed", "detach"}, pc'[p] = "nextLower", Present(Lower(p))
      PROVE  DevBusy(Lower(p))
  <2>1. pc[p] = "checkUsed" /\ CheckUsed(p)
    BY <1>0, <1>1, <1>3 DEF UmountOK, RemoveMeta, Detach
  <2>2. UsedHere(Meta(p), Lower(p))
    BY <1>0, <1>3, <2>1 DEF CheckUsed, Goto
  <2>. QED BY <2>2 DEF UsedHere, DevBusy
<1>. QED BY <1>2, <1>3

(* A Umount that reports success has unmounted each layer and removed the  *)
(* metadata directory, and left no device that nobody uses                 *)
(* (molecule.go:388-441).                                                  *)
THEOREM UmountReleases ==
  ASSUME CommonLock
  PROVE  Spec => OkUmountReleases
<1>1. ASSUME IndInv, UmountInv, [Next]_vars
      PROVE  \A p \in Procs :
               /\ pc[p] = "removeMeta" /\ pc'[p] = "ok" =>
                    /\ Meta(p) \notin metadirs'
                    /\ \A a \in ToSet(lower[p]) : mnt'[Meta(p)][a] = << >>
               /\ pc[p] \in {"checkUsed", "detach"} /\ pc'[p] = "nextLower" =>
                    (Present(Lower(p)) => DevBusy(Lower(p)))
  BY <1>1, Releases
<1>. QED BY <1>1, Invariance, UmountInvariance, PTL DEF Spec, OkUmountReleases

-----------------------------------------------------------------------------
(* Undisturbed runs: what is at work, and which steps are made.            *)

SafeInv == IndInv /\ PlaceInv /\ OnlyLayers /\ UmountInv

(* The invocation that holds the lock is the only one at work on devices,  *)
(* and what concerns it follows from the invariants.                       *)
LEMMA AtWork ==
  ASSUME SafeInv, CleanInv, NEW p \in Procs
  PROVE  /\ TypeOK /\ LocalsOK(p) /\ PlaceOK(p) /\ UmountOK(p) /\ MountsOK /\ MountingOK(p)
         /\ DevicesClean /\ PlacesClean /\ MountClean(p) /\ UmountClean(p) /\ cmd[p] \in Cmds[p]
         /\ Meta(p) \in MetaDirs /\ Target(p) \in Targets
         /\ pc \in [Procs -> Steps] /\ idx \in [Procs -> Nat]
         /\ lower[p] \in Seq(Atoms \cup {Stray}) /\ Len(lower[p]) \in Nat
         /\ pc[p] \in Critical => \A q \in Procs \ {p} : pc[q] \notin Critical
BY TargetType, LenProperties
   DEF SafeInv, CleanInv, IndInv, PlaceInv, UmountInv, TypeOK, InvocationTypes, LocalTypes, Exclusion

LEMMA PlainStack == ToSet(<<"plain">>) = {"plain"} /\ ToSet(<< >>) = {}
BY DEF ToSet

(* There is no overlay but the first of a target.                          *)
LEMMA OnlyOverlay ==
  ASSUME TypeOK, OneMolecule, NEW t \in Targets, NEW k \in DOMAIN ovl[t]
  PROVE  k = 1 /\ ovl[t] # << >>
<1>1. ovl[t] # << >>
  OBVIOUS
<1>2. Len(ovl[t]) = 1 /\ ovl[t] \in Seq(Overlay)
  <2>. DEFINE o == ovl[t][1]
  <2>1. ovl[t] = <<o>>
    BY <1>1 DEF OneMolecule
  <2>. HIDE DEF o
  <2>2. Len(<<o>>) = 1
    OBVIOUS
  <2>. QED BY <2>1, <2>2 DEF o, TypeOK, KernelTypes
<1>. QED BY <1>1, <1>2, LenProperties

(* What a Mount is asked for can be mounted.                               *)
LEMMA Fit ==
  ASSUME Undisturbed, SafeInv, CleanInv, NEW p \in Procs, cmd[p] \in MountCmd
  PROVE  /\ cmd[p].over # "stray" /\ IsInjective(Layers[Image(p)])
         /\ Layers[Image(p)] \in Seq(Atoms) /\ Len(Layers[Image(p)]) \in Nat
         /\ DOMAIN Layers[Image(p)] = 1 .. Len(Layers[Image(p)])
         /\ pc[p] \in AtomSteps \/ AtNextAtom(p) =>
              /\ idx[p] \in 1 .. Len(Layers[Image(p)])
              /\ Atom(p) \in Wanted /\ Atom(p) \in Atoms
              /\ IF ByVerity(p) THEN Hash(p) = BlobHash[Atom(p)] ELSE cmd[p].allow
<1>1. /\ Layers[Image(p)] \in Seq(Atoms) /\ Len(Layers[Image(p)]) \in Nat
      /\ TypeOK /\ LocalsOK(p) /\ idx \in [Procs -> Nat]
  BY AtWork, ImageType
<1>2. DOMAIN Layers[Image(p)] = 1 .. Len(Layers[Image(p)])
  BY <1>1, LenProperties
<1>3. cmd[p] \in Cmds[p] /\ cmd[p].op = "mount"
  BY AtWork DEF MountCmd
<1>4. cmd[p].over # "stray" /\ Mountable(p, Image(p), cmd[p].allow)
  BY <1>3 DEF Undisturbed, Image
<1>5. ASSUME pc[p] \in AtomSteps \/ AtNextAtom(p)
      PROVE  /\ idx[p] \in 1 .. Len(Layers[Image(p)])
             /\ Atom(p) \in Wanted /\ Atom(p) \in Atoms
             /\ IF ByVerity(p) THEN Hash(p) = BlobHash[Atom(p)] ELSE cmd[p].allow
  <2>1. idx[p] \in 1 .. Len(Layers[Image(p)])
    BY <1>1, <1>5 DEF LocalsOK, LoopSteps, AtNextAtom
  <2>2. Atom(p) \in ToSet(Layers[Image(p)]) /\ Atom(p) \in Atoms
    BY <1>1, <1>2, <2>1, ElementOfSeq DEF Atom, ToSet
  <2>3. Atom(p) \in Wanted
    BY <1>3, <2>2 DEF Wanted, Image
  <2>4. IF ByVerity(p) THEN Hash(p) = BlobHash[Atom(p)] ELSE cmd[p].allow
    BY <1>4, <2>2 DEF Mountable, ByVerity, Hash
  <2>. QED BY <2>1, <2>2, <2>3, <2>4
<1>. QED BY <1>1, <1>2, <1>4, <1>5 DEF Mountable

(* A loop device is free: those in use belong to different layers, and not *)
(* to the one that is asked for.                                           *)
LEMMA FreeLoop ==
  ASSUME Undisturbed, SafeInv, CleanInv, NEW p \in Procs, pc[p] = "attachLoop"
  PROVE  \E l \in Loops : loops[l] = NoAtom
<1>. SUFFICES ASSUME \A l \in Loops : loops[l] # NoAtom PROVE FALSE
  OBVIOUS
<1>0. loops \in [Loops -> Atoms \cup {NoAtom}] /\ Atom(p) \in Wanted
  <2>1. cmd[p] \in MountCmd
    BY AtWork DEF LocalsOK
  <2>. QED BY <2>1, AtWork, Fit DEF TypeOK, KernelTypes
<1>1. \A q \in Procs : pc[q] \notin {"activate", "detach"}
  BY AtWork
<1>2. \A l \in Loops : Present(loops[l]) /\ dm[loops[l]].loop = l
  BY <1>1, AtWork DEF DevicesClean
<1>3. ~Present(Atom(p))
  BY AtWork DEF MountClean
<1>4. \A l \in Loops : loops[l] \in Wanted \ {Atom(p)}
  BY <1>0, <1>2, <1>3, AtWork DEF DevicesClean
<1>5. loops \in [Loops -> Wanted \ {Atom(p)}]
  BY <1>0, <1>4
<1>6. /\ IsFiniteSet(Wanted \ {Atom(p)}) /\ IsFiniteSet(Loops)
      /\ Cardinality(Wanted \ {Atom(p)}) < Cardinality(Loops)
  <2>1. /\ IsFiniteSet(Wanted \ {Atom(p)})
        /\ Cardinality(Wanted \ {Atom(p)}) = Cardinality(Wanted) - 1
    BY <1>0, FS_RemoveElement DEF Undisturbed
  <2>2. Cardinality(Wanted) \in Nat /\ Cardinality(Loops) \in Nat
    BY FS_CardinalityType DEF Undisturbed
  <2>. QED BY <2>1, <2>2 DEF Undisturbed
<1>7. \E x, y \in Loops : x # y /\ loops[x] = loops[y]
  BY <1>5, <1>6, FS_PigeonHole
<1>. QED BY <1>2, <1>7

(* The steps that are left when nothing fails.                             *)
MountHealthy(p) ==
  \/ OverlayLowerDirs(p) /\ pc'[p] = "nextAtom"
  \/ MakeMountpoint(p) \/ FsMount(p) \/ MountPlain(p)
  \/ (StatDevice(p) /\ ~MayFail(p)) \/ AttachLoop(p)
  \/ Activate(p) \/ (ConfirmHash(p) /\ pc'[p] = "confirmValidity")
  \/ (ConfirmValidity(p) /\ pc'[p] = "mountDevice") \/ MountDevice(p)
  \/ AtomsDone(p) \/ WriteConfig(p) \/ MountOverlay(p)

UmountHealthy(p) ==
  \/ FindOverlay(p) \/ FindOverlayFails(p) \/ UmountTop(p) \/ UmountTopFails(p)
  \/ UmountAtom(p) \/ CheckUsed(p)
  \/ Deactivate(p) \/ (Detach(p) /\ pc'[p] = "nextLower" /\ loops' = Detached(loop[p]))
  \/ LowersDone(p) \/ (RemoveMeta(p) /\ ~MayFail(p) /\ ~MountedIn(Meta(p)))

BeginHealthy(p) ==
  StartMount(p) \/ StartUmount(p) \/ EnsureDir(p) \/ MakeLock(p) \/ Flock(p)

LEMMA NoFailure ==
  ASSUME Undisturbed, NEW p \in Procs, MayFail(p)
  PROVE  pc[p] \in {"ensureDir", "umountTop"}
BY DEF Undisturbed, MayFail

LEMMA NoBadBegin ==
  ASSUME CommonLock, Undisturbed, NEW p \in Procs, BeforeLockStep(p)
  PROVE  BeginHealthy(p)
<1>1. LockDirOf[p] # NoDir
  BY NoneAssumption DEF CommonLock
<1>. QED BY <1>1, NoFailure DEF BeforeLockStep, BeginHealthy, MakeLockFails, FlockFails

LEMMA NoBadDevice ==
  ASSUME Undisturbed, SafeInv, CleanInv, NEW p \in Procs, VerityMountStep(p)
  PROVE  MountHealthy(p)
<1>0. /\ LocalsOK(p) /\ MountClean(p) /\ MountingOK(p) /\ DevicesClean /\ MountsOK
      /\ Meta(p) \in MetaDirs /\ pc \in [Procs -> Steps]
      /\ pc[p] = "mountDevice" => mnt[Meta(p)][Atom(p)] = << >>
  BY AtWork DEF MountingOK
<1>1. pc[p] \in VeritySteps =>
        Atom(p) \in Atoms /\ ByVerity(p) /\ Hash(p) = BlobHash[Atom(p)]
  <2>1. pc[p] \in VeritySteps => cmd[p] \in MountCmd /\ pc[p] \in AtomSteps /\ ByVerity(p)
    BY <1>0 DEF LocalsOK, VeritySteps, MountClean
  <2>. QED BY <2>1, Fit
<1>. USE <1>0, NoFailure DEF MountHealthy, VeritySteps
<1>2. ~AttachLoopFails(p)
  BY FreeLoop DEF AttachLoopFails
<1>3. ~ActivateFails(p)
  BY DEF ActivateFails, MountClean
<1>4. ConfirmHash(p) => MountHealthy(p)
  <2>1. pc[p] = "confirmHash" => Present(Atom(p)) /\ dm[Atom(p)].hash = Hash(p)
    BY <1>1 DEF MountingOK, DevicesClean
  <2>. QED BY <2>1 DEF ConfirmHash, Goto
<1>5. ConfirmValidity(p) => MountHealthy(p)
  BY DEF ConfirmValidity, Goto, MountingOK, Verified, DevicesClean
<1>6. ~MountDeviceFails(p)
  <2>1. pc[p] = "mountDevice" => MountableOn(Atom(p), Meta(p))
    BY <1>1 DEF MountableOn, DevOnTop, MountingOK, Verified, DevicesClean
  <2>2. Tampered = {}
    BY DEF Undisturbed
  <2>. QED BY <2>1, <2>2 DEF MountDeviceFails
<1>7. ~UndoDevice(p) /\ ~UndoLoop(p)
  BY DEF UndoDevice, UndoLoop, MountClean
<1>8. StatDevice(p) => MountHealthy(p)
  BY DEF StatDevice
<1>. QED BY <1>2, <1>3, <1>4, <1>5, <1>6, <1>7, <1>8 DEF VerityMountStep

LEMMA NoBadMount ==
  ASSUME Undisturbed, SafeInv, CleanInv, NEW p \in Procs, MountStep(p)
  PROVE  MountHealthy(p)
<1>0. /\ LocalsOK(p) /\ MountClean(p) /\ MountingOK(p) /\ PlaceOK(p)
      /\ pc \in [Procs -> Steps] /\ OnlyLayers
  BY AtWork DEF SafeInv
<1>1. pc[p] \in MountSteps => cmd[p] \in MountCmd /\ Mounting(p)
  BY <1>0 DEF LocalsOK, MountCmd, Mounting
<1>2. pc[p] \in MountSteps => Meta(p) \in metadirs
  BY <1>0, <1>1 DEF OnlyLayers
<1>. USE <1>0, NoFailure DEF MountHealthy
<1>3. OverlayLowerDirs(p) => MountHealthy(p)
  BY DEF OverlayLowerDirs, Goto
<1>4. ~RefuseAtom(p)
  BY <1>1, Fit DEF RefuseAtom, Refused, ByVerity, AtNextAtom
<1>5. ~ReuseMounted(p)
  <2>1. AtNextAtom(p) => mnt[Meta(p)][Atom(p)] = << >>
    BY <1>1, Fit DEF AtNextAtom, MountClean, LoopSteps, Atom
  <2>. QED BY <2>1 DEF ReuseMounted
<1>6. ~FsMountFails(p)
  <2>1. pc[p] = "prepare" => (ByVerity(p) => BlobHash[Atom(p)] # NoHash)
    BY <1>1, Fit DEF ByVerity
  <2>. QED BY <2>1 DEF FsMountFails, Undisturbed
<1>7. ~MountPlainFails(p) /\ ~MountPlainGivesUp(p) /\ ~MountPlainDies(p) /\ ~MayGiveUp(p)
  BY DEF MountPlainFails, MountPlainGivesUp, MountPlainDies, MayGiveUp, MountingOK, Undisturbed
<1>8. ~WriteConfigFails(p)
  BY <1>2 DEF WriteConfigFails
<1>9. ~MountOverlayFails(p)
  <2>. SUFFICES ASSUME pc[p] = "mountOverlay", NEW a \in ToSet(Layers[Image(p)])
                PROVE  mnt[Meta(p)][a] # << >>
    BY <1>1, <1>2, Fit DEF MountOverlayFails
  <2>1. PICK j \in 1 .. Len(Layers[Image(p)]) : a = Layers[Image(p)][j]
    BY <1>1, Fit DEF ToSet
  <2>2. j \in 1 .. idx[p] - 1
    BY <1>1, <2>1, Fit DEF LocalsOK
  <2>. QED BY <1>7, <2>1, <2>2 DEF PlaceOK, LoopSteps
<1>10. ~Cleanup(p)
  BY DEF Cleanup, MountClean
<1>. QED BY <1>3, <1>4, <1>5, <1>6, <1>7, <1>8, <1>9, <1>10 DEF MountStep

LEMMA NoBadUmount ==
  ASSUME Undisturbed, SafeInv, CleanInv, NEW p \in Procs, UmountStep(p)
  PROVE  UmountHealthy(p)
<1>0. /\ LocalsOK(p) /\ UmountClean(p) /\ UmountOK(p) /\ PlaceInv /\ OnlyLayers /\ DevicesClean
      /\ Meta(p) \in MetaDirs /\ idx \in [Procs -> Nat] /\ Len(lower[p]) \in Nat
  BY AtWork DEF SafeInv
<1>. USE <1>0, NoFailure DEF UmountHealthy
<1>1. ~UmountAtomFails(p)
  <2>1. AtLower(p) => MountedLower(p)
    <3>. SUFFICES ASSUME AtLower(p) PROVE MountedLower(p)
      OBVIOUS
    <3>1. pc[p] = "nextLower" /\ idx[p] \in 1 .. Len(lower[p])
      BY DEF AtLower, LocalsOK, Releasing
    <3>2. Lower(p) \in Atoms
      BY <3>1, ElementOfSeq DEF UmountClean, Lower, Releasing
    <3>3. mnt[Meta(p)][Lower(p)] # << >>
      BY <3>1, <3>2 DEF UmountClean, Lower, Releasing, LowerSteps
    <3>. QED BY <3>2, <3>3 DEF MountedLower
  <2>. QED BY <2>1 DEF UmountAtomFails, AtLower
<1>2. ~DeactivateFails(p)
  <2>1. pc[p] = "deactivate" => ~DevBusy(Lower(p))
    <3>. SUFFICES ASSUME pc[p] = "deactivate", DevBusy(Lower(p)) PROVE FALSE
      OBVIOUS
    <3>1. Lower(p) \in Atoms /\ \A m \in MetaDirs : mnt[m][Lower(p)] # <<"dm">>
      BY DEF LocalsOK, LowerSteps, UmountClean
    <3>2. \A m \in MetaDirs : "dm" \notin ToSet(mnt[m][Lower(p)])
      <4>1. MountsOK
        BY AtWork
      <4>2. \A m \in MetaDirs : mnt[m][Lower(p)] \in {<< >>, <<"plain">>}
        BY <3>1, <4>1 DEF MountsOK
      <4>. QED BY <4>2, PlainStack
    <3>3. PICK t \in Targets : \E k \in DOMAIN ovl[t] : Lower(p) \in ovl[t][k].pins
      BY <3>2 DEF DevBusy
    <3>4. ovl[t] # << >> /\ Lower(p) \in ovl[t][1].pins
      BY <3>3, AtWork, OnlyOverlay DEF PlaceInv
    <3>5. mnt[MetaOf[t]][Lower(p)] = <<"dm">>
      BY <3>1, <3>4 DEF OnlyLayers
    <3>. QED BY <3>1, <3>5, WorldAssumption
  <2>. QED BY <2>1 DEF DeactivateFails, UmountClean
<1>3. Detach(p) => UmountHealthy(p)
  <2>1. pc[p] = "detach" => loops[loop[p]] # NoAtom
    BY NoneAssumption DEF UmountClean, LocalsOK, LowerSteps
  <2>. QED BY <2>1, AtWork DEF Detach, Goto
<1>4. RemoveMeta(p) => UmountHealthy(p)
  <2>1. pc[p] = "removeMeta" => ~MountedIn(Meta(p))
    BY DEF MountedIn, UmountClean, UmountOK, Releasing
  <2>. QED BY <2>1 DEF RemoveMeta
<1>5. ~CheckUsedFails(p) /\ ~RemoveMetaFails(p)
  BY DEF CheckUsedFails, RemoveMetaFails
<1>. QED BY <1>1, <1>2, <1>3, <1>4, <1>5 DEF UmountStep

LEMMA Healthy ==
  ASSUME CommonLock, Undisturbed, SafeInv, CleanInv, NEW p \in Procs, Run(p) \/ Crash(p)
  PROVE  BeginHealthy(p) \/ MountHealthy(p) \/ UmountHealthy(p)
<1>1. ~Crash(p)
  BY DEF Crash, Undisturbed
<1>. QED BY <1>1, NoBadBegin, NoBadDevice, NoBadMount, NoBadUmount DEF Run

LEMMA SafeStep ==
  ASSUME CommonLock, SerialMounts, SafeInv, [Next]_vars
  PROVE  SafeInv'
<1>1. LocalsInv
  BY DEF SafeInv, IndInv, LocalsInv
<1>. QED BY <1>1, Inductive, PlaceInductive, OnlyLayersStep, UmountInductive DEF SafeInv

-----------------------------------------------------------------------------
(* What is at work stays in order.                                         *)

(* Nobody but the holder of the lock touches loop devices.                 *)
LEMMA OutsideLoops ==
  ASSUME NEW p \in Procs, BeginHealthy(p) \/ MountHealthy(p) \/ UmountHealthy(p)
  PROVE  loops' = loops \/ AttachLoop(p) \/ (Detach(p) /\ loops' = Detached(loop[p]))
<1>. USE DEF kernel
<1>1. CASE BeginHealthy(p)
  BY <1>1 DEF BeginHealthy, StartMount, StartUmount, EnsureDir, MakeLock, Flock
<1>2. CASE MountHealthy(p)
  BY <1>2 DEF MountHealthy, OverlayLowerDirs, MakeMountpoint, FsMount, MountPlain, StatDevice, Activate, ConfirmHash, ConfirmValidity, MountDevice, AtomsDone, WriteConfig, MountOverlay
<1>3. CASE UmountHealthy(p)
  BY <1>3 DEF UmountHealthy, FindOverlay, FindOverlayFails, UmountTop, UmountTopFails, UmountAtom, CheckUsed, Deactivate, LowersDone, RemoveMeta
<1>. QED BY <1>1, <1>2, <1>3

(* What is mounted in the place of a Mount is not changed by another       *)
(* invocation.                                                             *)
LEMMA OthersElsewhere ==
  ASSUME SafeInv, CleanInv, NEW p \in Procs, Run(p) \/ Crash(p), NEW q \in Procs, q # p,
         Mounting(q), NEW a \in Atoms
  PROVE  mnt'[Meta(q)][a] = mnt[Meta(q)][a]
<1>1. PlaceOK(p) /\ PlaceOK(q) /\ IndInv /\ Meta(q) \in MetaDirs
  BY AtWork DEF SafeInv
<1>2. pc[p] \in Releasing \/ Mounting(p) => Meta(q) # Meta(p)
  BY <1>1 DEF PlaceOK
<1>. QED BY <1>1, <1>2, MountChanges

LEMMA OthersClean ==
  ASSUME CommonLock, Undisturbed, SafeInv, CleanInv, NEW p \in Procs, Run(p) \/ Crash(p),
         NEW q \in Procs, q # p
  PROVE  MountClean(q)' /\ UmountClean(q)'
<1>1. /\ pc'[q] = pc[q] /\ idx'[q] = idx[q] /\ loop'[q] = loop[q] /\ lower'[q] = lower[q]
      /\ cmd' = cmd /\ MountClean(q) /\ UmountClean(q)
  BY AtWork, Frame
<1>2. Meta(q)' = Meta(q) /\ Image(q)' = Image(q) /\ (Mounting(q)' <=> Mounting(q))
  BY <1>1 DEF Meta, Target, Image, Mounting
<1>3. CASE pc[q] \in Critical
  <2>1. pc[p] \notin Critical
    BY <1>3, AtWork
  <2>2. UNCHANGED <<dm, mnt, ovl>>
    BY <2>1, OutsideTouchesNothing
  <2>3. loops' = loops
    BY <2>1, Healthy, OutsideLoops DEF AttachLoop, Detach
  <2>4. /\ Atom(q)' = Atom(q) /\ Hash(q)' = Hash(q) /\ (ByVerity(q)' <=> ByVerity(q))
        /\ Lower(q)' = Lower(q) /\ \A a : Present(a)' <=> Present(a)
    BY <1>1, <1>2, <2>2 DEF Atom, Hash, ByVerity, Lower, Present
  <2>5. MountClean(q)'
    BY <1>1, <1>2, <2>2, <2>3, <2>4 DEF MountClean, MountedIn
  <2>6. UmountClean(q)'
    BY <1>1, <1>2, <2>2, <2>3, <2>4 DEF UmountClean
  <2>. QED BY <2>5, <2>6
<1>4. CASE pc[q] \notin Critical
  <2>1. Mounting(q) => ~MountedIn(Meta(q))
    BY <1>1, <1>4 DEF MountClean, LoopSteps
  <2>2. Mounting(q) => ~MountedIn(Meta(q))'
    BY <1>2, <2>1, OthersElsewhere DEF MountedIn
  <2>. QED BY <1>1, <1>2, <1>4, <2>2 DEF MountClean, UmountClean, LoopSteps, VeritySteps, Releasing
<1>. QED BY <1>3, <1>4

(* Who is about to mount.                                                  *)
LEMMA OwnMountClean ==
  ASSUME CommonLock, Undisturbed, SafeInv, CleanInv, NEW p \in Procs, Run(p) \/ Crash(p)
  PROVE  MountClean(p)'
<1>0. /\ TypeOK /\ LocalsOK(p) /\ PlaceOK(p) /\ MountClean(p) /\ Meta(p) \in MetaDirs
      /\ pc \in [Procs -> Steps] /\ idx \in [Procs -> Nat] /\ OnlyLayers /\ MountingOK(p)
      /\ loop \in [Procs -> Loops \cup {NoLoop}] /\ loops \in [Loops -> Atoms \cup {NoAtom}]
  BY AtWork DEF SafeInv, TypeOK, LocalTypes, KernelTypes
<1>1. cmd' = cmd /\ Meta(p)' = Meta(p) /\ Image(p)' = Image(p)
  BY <1>0, Frame DEF Meta, Target, Image
<1>2. CASE BeginHealthy(p)
  <2>1. UNCHANGED mnt
    BY <1>2 DEF BeginHealthy, StartMount, StartUmount, EnsureDir, MakeLock, Flock, kernel
  <2>2. /\ Mounting(p)' /\ ~StartMount(p) => Mounting(p) /\ pc[p] \notin LoopSteps
        /\ StartMount(p) /\ Mounting(p)' => Meta(p) \notin metadirs
        /\ pc'[p] \in BeforeLock \cup Final \cup {"overlayLowerDirs", "findOverlay"}
    BY <1>0, <1>2 DEF BeginHealthy, StartMount, StartUmount, EnsureDir, MakeLock, Flock, Goto, Exit, Mounting, LoopSteps
  <2>3. Mounting(p)' => ~MountedIn(Meta(p))
    BY <1>0, <2>2 DEF OnlyLayers, MountClean
  <2>. QED BY <1>1, <2>1, <2>2, <2>3 DEF MountClean, MountedIn, LoopSteps, VeritySteps
<1>3. CASE UmountHealthy(p)
  <2>1. pc[p] \in UmountSteps /\ cmd[p].op = "umount" /\ pc'[p] \in UmountSteps \cup Final
    BY <1>0, <1>3 DEF UmountHealthy, FindOverlay, FindOverlayFails, UmountTop, UmountTopFails, UmountAtom, AtLower, CheckUsed, Deactivate, Detach, LowersDone, RemoveMeta, Goto, Exit, LocalsOK
  <2>. QED BY <1>1, <2>1 DEF MountClean, Mounting, LoopSteps, VeritySteps
<1>4. CASE MountHealthy(p)
  <2>0. cmd[p] \in MountCmd /\ pc[p] \in MountSteps \ {"cleanup"}
    BY <1>0, <1>4 DEF MountHealthy, OverlayLowerDirs, MakeMountpoint, AtNextAtom, FsMount, MountPlain, StatDevice, AttachLoop, Activate, ConfirmHash, ConfirmValidity, MountDevice, AtomsDone, WriteConfig, MountOverlay, LocalsOK
  <2>. DEFINE L == Layers[Image(p)]
  <2>1. /\ L \in Seq(Atoms) /\ Len(L) \in Nat /\ IsInjective(L) /\ DOMAIN L = 1 .. Len(L)
        /\ \A j \in 1 .. Len(L) : L[j] \in Atoms
    BY <2>0, Fit, ElementOfSeq
  <2>2. CASE OverlayLowerDirs(p) /\ pc'[p] = "nextAtom"
    <3>1. mnt' = mnt /\ idx'[p] = 1 /\ pc[p] = "overlayLowerDirs"
      BY <1>0, <2>2 DEF OverlayLowerDirs, Exit, Goto, kernel
    <3>2. ~MountedIn(Meta(p))
      BY <2>0, <3>1, <1>0 DEF MountClean, Mounting, MountCmd, LoopSteps
    <3>3. \A j \in idx'[p] .. Len(L) : mnt'[Meta(p)][L[j]] = << >>
      BY <2>1, <3>1, <3>2 DEF MountedIn
    <3>. QED BY <1>1, <2>2, <3>3 DEF MountClean, LoopSteps, VeritySteps
  <2>3. CASE MountOverlay(p)
    <3>1. pc'[p] = "ok"
      BY <1>0, <2>3 DEF MountOverlay, Exit, Goto
    <3>. QED BY <3>1 DEF MountClean, Mounting, LoopSteps, VeritySteps
  <2>4. CASE MountDevice(p) \/ MountPlain(p)
    <3>1. pc[p] \in {"mountDevice", "mountPlain"} /\ pc'[p] = "nextAtom" /\ idx'[p] = idx[p] + 1
      BY <1>0, <2>4 DEF MountDevice, MountPlain, Goto
    <3>2. idx[p] \in 1 .. Len(L) /\ Atom(p) = L[idx[p]]
      BY <2>0, <3>1, Fit DEF Atom
    <3>3. \A a \in Atoms : a # Atom(p) => mnt'[Meta(p)][a] = mnt[Meta(p)][a]
      BY <1>0, <2>4, <3>1, MountChanges DEF SafeInv, Releasing
    <3>4. \A j \in idx'[p] .. Len(L) : mnt'[Meta(p)][L[j]] = << >>
      <4>. SUFFICES ASSUME NEW j \in idx'[p] .. Len(L) PROVE mnt'[Meta(p)][L[j]] = << >>
        OBVIOUS
      <4>1. j \in 1 .. Len(L) /\ j # idx[p] /\ j \in idx[p] .. Len(L)
        BY <1>0, <2>1, <3>1, <3>2
      <4>2. L[j] # Atom(p)
        BY <2>1, <3>2, <4>1 DEF IsInjective
      <4>3. mnt[Meta(p)][L[j]] = << >>
        BY <1>0, <3>1, <4>1 DEF MountClean, LoopSteps
      <4>. QED BY <2>1, <3>3, <4>1, <4>2, <4>3
    <3>. QED BY <1>1, <3>1, <3>4 DEF MountClean, LoopSteps, VeritySteps
  <2>5. CASE \/ MakeMountpoint(p) \/ FsMount(p) \/ (StatDevice(p) /\ ~MayFail(p)) \/ AttachLoop(p)
             \/ Activate(p) \/ (ConfirmHash(p) /\ pc'[p] = "confirmValidity")
             \/ (ConfirmValidity(p) /\ pc'[p] = "mountDevice")
             \/ AtomsDone(p) \/ WriteConfig(p)
    <3>. USE <2>5 DEF MakeMountpoint, AtNextAtom, FsMount, StatDevice, AttachLoop, Activate, ConfirmHash, ConfirmValidity, AtomsDone, WriteConfig, Goto, locals, kernel, LoopSteps, VeritySteps
    <3>1. mnt' = mnt /\ idx' = idx /\ pc[p] \in LoopSteps /\ pc'[p] \in LoopSteps \ {"undoDevice", "undoLoop"}
      <4>1. mnt' = mnt
        OBVIOUS
      <4>2. idx' = idx
        BY <1>0 DEF FailMount
      <4>3. pc[p] \in LoopSteps
        OBVIOUS
      <4>4. pc'[p] \in LoopSteps \ {"undoDevice", "undoLoop"}
        BY <1>0
      <4>. QED BY <4>1, <4>2, <4>3, <4>4
    <3>2. UNCHANGED <<Atom(p), Hash(p), ByVerity(p)>>
      BY <1>1, <3>1 DEF Atom, Hash, ByVerity
    <3>3. pc'[p] \in VeritySteps => pc[p] \in VeritySteps \/ ByVerity(p)
      BY <1>0
    <3>4. pc'[p] \in {"attachLoop", "activate"} => ~Present(Atom(p)) /\ dm' = dm
      BY <1>0 DEF MountClean
    <3>5. pc'[p] = "activate" => loops'[loop'[p]] = Atom(p)
      BY <1>0
    <3>. QED BY <1>0, <1>1, <3>1, <3>2, <3>3, <3>4, <3>5 DEF MountClean, Present
  <2>. QED BY <1>4, <2>2, <2>3, <2>4, <2>5 DEF MountHealthy
<1>. QED BY <1>2, <1>3, <1>4, Healthy

(* The layer at which the Umount is has been mounted once.                 *)
LEMMA UmountsOne ==
  ASSUME TypeOK, MountsOK, NEW p \in Procs, UmountAtom(p)
  PROVE  \A m \in MetaDirs, a \in Atoms :
           mnt'[m][a] = IF m = Meta(p) /\ a = Lower(p) THEN << >> ELSE mnt[m][a]
<1>1. /\ Lower(p) \in Atoms /\ mnt[Meta(p)][Lower(p)] # << >> /\ Meta(p) \in MetaDirs
      /\ mnt' = [mnt EXCEPT ![Meta(p)][Lower(p)] = Front(@)]
  BY TargetType DEF UmountAtom, MountedLower
<1>2. Front(mnt[Meta(p)][Lower(p)]) = << >>
  BY <1>1, Stacks DEF MountsOK
<1>3. mnt' = [mnt EXCEPT ![Meta(p)][Lower(p)] = << >>] /\ << >> \in Seq({"dm", "plain"})
  BY <1>1, <1>2
<1>4. KernelTypes
  BY DEF TypeOK
<1>. DEFINE m0 == Meta(p) a0 == Lower(p) s0 == << >>
<1>5. /\ m0 \in MetaDirs /\ a0 \in Atoms /\ s0 \in Seq({"dm", "plain"})
      /\ mnt' = [mnt EXCEPT ![m0][a0] = s0]
  BY <1>1, <1>3
<1>. HIDE DEF m0, a0, s0
<1>6. \A m \in MetaDirs, a \in Atoms :
        mnt'[m][a] = IF m = m0 /\ a = a0 THEN s0 ELSE mnt[m][a]
  BY <1>4, <1>5, MntUpdate
<1>. QED BY <1>6 DEF m0, a0, s0

(* Who unmounts.                                                           *)
LEMMA OwnUmountClean ==
  ASSUME CommonLock, Undisturbed, SafeInv, CleanInv, NEW p \in Procs, Run(p) \/ Crash(p)
  PROVE  UmountClean(p)'
<1>0. /\ TypeOK /\ LocalsOK(p) /\ UmountOK(p) /\ UmountClean(p) /\ DevicesClean /\ PlacesClean
      /\ Meta(p) \in MetaDirs /\ Target(p) \in Targets /\ OneMolecule
      /\ pc \in [Procs -> Steps] /\ idx \in [Procs -> Nat] /\ MountsOK
      /\ loops \in [Loops -> Atoms \cup {NoAtom}] /\ dm \in [Atoms -> Device \cup {NoDevice}]
      /\ loop \in [Procs -> Loops \cup {NoLoop}]
  BY AtWork DEF SafeInv, PlaceInv, TypeOK, LocalTypes, KernelTypes
<1>1. cmd' = cmd /\ Meta(p)' = Meta(p)
  BY <1>0, Frame DEF Meta, Target
<1>2. CASE BeginHealthy(p) \/ MountHealthy(p)
  <2>1. pc'[p] \notin Releasing
    <3>1. ~GoesOn(p)
      BY <1>2 DEF BeginHealthy, StartMount, StartUmount, EnsureDir, MakeLock, Flock, MountHealthy, OverlayLowerDirs, MakeMountpoint, AtNextAtom, FsMount, MountPlain, StatDevice, AttachLoop, Activate, ConfirmHash, ConfirmValidity, MountDevice, AtomsDone, WriteConfig, MountOverlay, GoesOn, UmountTop, UmountAtom, AtLower, CheckUsed, DeactivateFails, Deactivate, Detach, LowersDone
    <3>. QED BY <1>0, <3>1, LeavesRelease
  <2>. QED BY <2>1 DEF UmountClean, Releasing
<1>3. CASE FindOverlay(p) \/ FindOverlayFails(p) \/ UmountTopFails(p) \/ RemoveMeta(p)
  BY <1>0, <1>3 DEF FindOverlay, FindOverlayFails, UmountTopFails, RemoveMeta, Exit, Goto, UmountClean, Releasing
<1>4. CASE UmountTop(p)
  <2>1. /\ pc[p] = "umountTop" /\ pc'[p] = "nextLower" /\ idx'[p] = 1 /\ mnt' = mnt /\ lower' = lower
        /\ ovl[Target(p)] # << >>
    BY <1>0, <1>4 DEF UmountTop, Goto
  <2>. DEFINE o == ovl[Target(p)][1]
  <2>2. o \in Overlay /\ Head(ovl[Target(p)]) = o
    BY <1>0, <2>1, SingleOverlay
  <2>3. lower[p] = Layers[o.image] /\ IsInjective(lower[p])
    BY <1>0, <2>1, <2>2 DEF UmountOK, OverlayLower, PlacesClean
  <2>4. lower[p] \in Seq(Atoms) /\ DOMAIN lower[p] = 1 .. Len(lower[p])
    BY <2>2, <2>3, WorldAssumption, LenProperties DEF Overlay
  <2>5. \A a \in Atoms : mnt[Meta(p)][a] # << >> <=> a \in ToSet(lower[p])
    <3>1. 1 \in DOMAIN ovl[Target(p)]
      BY <1>0, <2>1, EmptySeq, LenProperties DEF TypeOK, KernelTypes
    <3>2. o.gaps = {}
      BY <1>0, <2>1 DEF PlacesClean
    <3>. QED BY <1>0, <2>1, <2>3, <3>1, <3>2 DEF SafeInv, OnlyLayers, PlaceInv, LiveMoleculeIntact, Meta
  <2>6. \A a \in Atoms : mnt[Meta(p)][a] # << >> <=> \E j \in 1 .. Len(lower[p]) : a = lower[p][j]
    BY <2>4, <2>5 DEF ToSet
  <2>. QED BY <1>1, <2>1, <2>3, <2>4, <2>6 DEF UmountClean, LowerSteps
<1>5. CASE UmountAtom(p)
  <2>1. /\ pc[p] = "nextLower" /\ idx[p] <= Len(lower[p]) /\ Lower(p) \in Atoms /\ lower' = lower
        /\ \/ pc'[p] = "checkUsed" /\ idx' = idx
           \/ pc'[p] = "nextLower" /\ idx'[p] = idx[p] + 1
    BY <1>0, <1>5 DEF UmountAtom, AtLower, MountedLower, Goto
  <2>2. /\ idx[p] \in 1 .. Len(lower[p]) /\ Lower(p) = lower[p][idx[p]]
        /\ lower[p] \in Seq(Atoms) /\ IsInjective(lower[p])
        /\ \A a \in Atoms : mnt[Meta(p)][a] # << >> <=>
             \E j \in idx[p] .. Len(lower[p]) : a = lower[p][j]
    BY <1>0, <2>1 DEF LocalsOK, Lower, UmountClean, Releasing, LowerSteps
  <2>3. DOMAIN lower[p] = 1 .. Len(lower[p]) /\ Len(lower[p]) \in Nat
    BY <2>2, LenProperties
  <2>4. \A a \in Atoms : mnt'[Meta(p)][a] = IF a = Lower(p) THEN << >> ELSE mnt[Meta(p)][a]
    BY <1>0, <1>5, UmountsOne
  <2>5. \A a \in Atoms : mnt'[Meta(p)][a] # << >> <=>
          \E j \in idx[p] .. Len(lower[p]) : a = lower[p][j] /\ j # idx[p]
    BY <2>2, <2>3, <2>4 DEF IsInjective
  <2>6. CASE pc'[p] = "checkUsed" /\ idx' = idx
    BY <1>1, <2>1, <2>2, <2>5, <2>6 DEF UmountClean, LowerSteps
  <2>7. CASE pc'[p] = "nextLower" /\ idx'[p] = idx[p] + 1
    <3>1. \A j : j \in idx'[p] .. Len(lower[p]) <=> j \in idx[p] .. Len(lower[p]) /\ j # idx[p]
      BY <2>2, <2>3, <2>7
    <3>2. \A a \in Atoms : mnt'[Meta(p)][a] # << >> <=>
            \E j \in idx'[p] .. Len(lower[p]) : a = lower[p][j]
      BY <2>5, <3>1
    <3>. QED BY <1>1, <2>1, <2>2, <2>7, <3>2 DEF UmountClean, LowerSteps
  <2>. QED BY <2>1, <2>6, <2>7
<1>6. CASE CheckUsed(p) \/ Deactivate(p) \/ (Detach(p) /\ pc'[p] = "nextLower") \/ LowersDone(p)
  <2>. USE <1>6 DEF CheckUsed, Deactivate, Detach, LowersDone, Goto, Exit, locals, kernel
  <2>1. /\ mnt' = mnt /\ pc[p] \in LowerSteps \cup {"nextLower"} /\ lower'[p] = lower[p]
        /\ \/ pc[p] \in LowerSteps /\ pc'[p] \in LowerSteps /\ idx'[p] = idx[p]
           \/ pc[p] \in LowerSteps /\ pc'[p] = "nextLower" /\ idx'[p] = idx[p] + 1
           \/ pc[p] = "nextLower" /\ pc'[p] = "removeMeta" /\ idx'[p] = idx[p]
    <3>1. CASE CheckUsed(p)
      BY <1>0, <3>1 DEF LowerSteps
    <3>2. CASE Deactivate(p)
      BY <1>0, <3>2 DEF LowerSteps
    <3>3. CASE Detach(p) /\ pc'[p] = "nextLower"
      BY <1>0, <3>3 DEF LowerSteps
    <3>4. CASE LowersDone(p)
      BY <1>0, <3>4
    <3>. QED BY <3>1, <3>2, <3>3, <3>4
  <2>2. /\ lower[p] \in Seq(Atoms) /\ IsInjective(lower[p])
        /\ \A a \in Atoms : mnt[Meta(p)][a] # << >> <=>
            \E j \in idx[p] .. Len(lower[p]) :
              a = lower[p][j] /\ (pc[p] \in LowerSteps => j # idx[p])
    BY <1>0, <2>1 DEF UmountClean, Releasing, LowerSteps
  <2>3. pc[p] \in LowerSteps => Lower(p) \in Atoms /\ Lower(p)' = lower[p][idx'[p]] /\ idx[p] \in Nat
    BY <1>0, <2>1 DEF LocalsOK, Lower
  <2>4. \A a \in Atoms : mnt'[Meta(p)][a] # << >> <=>
            \E j \in idx'[p] .. Len(lower[p]) :
              a = lower[p][j] /\ (pc'[p] \in LowerSteps => j # idx'[p])
    <3>1. Len(lower[p]) \in Nat /\ idx[p] \in Nat
      BY <1>0, AtWork
    <3>2. CASE pc'[p] = "nextLower" /\ idx'[p] = idx[p] + 1 /\ pc[p] \in LowerSteps
      <4>1. \A j : j \in idx'[p] .. Len(lower[p]) <=> j \in idx[p] .. Len(lower[p]) /\ j # idx[p]
        BY <3>1, <3>2
      <4>. QED BY <2>1, <2>2, <3>2, <4>1 DEF LowerSteps
    <3>. QED BY <2>1, <2>2, <3>2 DEF LowerSteps
  <2>5. pc'[p] = "deactivate" => /\ CheckUsed(p) /\ dm' = dm /\ Lower(p)' = Lower(p)
                                 /\ Present(Lower(p)) /\ loop'[p] = dm[Lower(p)].loop
                                 /\ ~UsedHere(Meta(p), Lower(p))
    <3>1. pc'[p] = "deactivate" => CheckUsed(p) /\ idx' = idx
      BY <1>0
    <3>2. CheckUsed(p) /\ pc'[p] = "deactivate" =>
            /\ dm' = dm /\ lower' = lower /\ Present(Lower(p)) /\ loop'[p] = dm[Lower(p)].loop
            /\ ~UsedHere(Meta(p), Lower(p))
      BY <1>0
    <3>. QED BY <3>1, <3>2 DEF Lower
  <2>6. pc'[p] = "deactivate" => \A m \in MetaDirs : mnt[m][Lower(p)] # <<"dm">>
    BY <1>0, <2>5, Stacks DEF UsedHere, Undisturbed
  <2>7. pc'[p] = "detach" => /\ Deactivate(p) /\ loops' = loops /\ loop' = loop /\ Lower(p)' = Lower(p)
                             /\ loop[p] \in Loops /\ loops[loop[p]] = Lower(p)
    <3>1. pc'[p] = "detach" => Deactivate(p)
      BY <1>0
    <3>2. Deactivate(p) => loops' = loops /\ loop' = loop /\ Lower(p)' = Lower(p) /\ Lower(p) \in Atoms
                           /\ pc[p] = "deactivate"
      BY <2>3 DEF Lower, LowerSteps
    <3>3. pc[p] = "deactivate" => Present(Lower(p)) /\ loop[p] = dm[Lower(p)].loop
      BY <1>0 DEF UmountClean
    <3>4. \A a \in Atoms : Present(a) => dm[a].loop \in Loops /\ loops[dm[a].loop] = a
      BY <1>0 DEF Present, Device, DevicesClean
    <3>. QED BY <3>1, <3>2, <3>3, <3>4
  <2>. QED BY <1>1, <2>1, <2>2, <2>4, <2>5, <2>6, <2>7 DEF UmountClean, Present
<1>. QED BY <1>2, <1>3, <1>4, <1>5, <1>6, Healthy DEF UmountHealthy

-----------------------------------------------------------------------------
(* Devices and loop devices stay in order.                                 *)

(* A device is mounted, or the holder of the lock is at it.                *)
Held(p, a) ==
  \/ pc[p] \in {"confirmValidity", "mountDevice"} /\ Atom(p) = a
  \/ pc[p] \in {"checkUsed", "deactivate"} /\ Lower(p) = a

LEMMA NoCorruption ==
  ASSUME NEW p \in Procs, BeginHealthy(p) \/ MountHealthy(p) \/ UmountHealthy(p), corrupt = {}
  PROVE  corrupt' = {}
<1>. USE DEF kernel
<1>1. CASE BeginHealthy(p)
  BY <1>1 DEF BeginHealthy, StartMount, StartUmount, EnsureDir, MakeLock, Flock
<1>2. CASE MountHealthy(p)
  BY <1>2 DEF MountHealthy, OverlayLowerDirs, MakeMountpoint, FsMount, MountPlain, StatDevice, AttachLoop, Activate, ConfirmHash, ConfirmValidity, MountDevice, AtomsDone, WriteConfig, MountOverlay
<1>3. CASE UmountHealthy(p)
  BY <1>3 DEF UmountHealthy, FindOverlay, FindOverlayFails, UmountTop, UmountTopFails, UmountAtom, CheckUsed, Deactivate, Detach, LowersDone, RemoveMeta
<1>. QED BY <1>1, <1>2, <1>3

(* DevicesClean while p holds the lock.                                    *)
LEMMA HolderDevices ==
  ASSUME SafeInv, CleanInv, NEW p \in Procs, pc[p] \in Critical
  PROVE  /\ \A a \in Atoms : Present(a) =>
              /\ a \in Wanted /\ dm[a].hash = BlobHash[a] /\ loops[dm[a].loop] = a
              /\ dm[a] \in Device
              /\ Held(p, a) \/ \E m \in MetaDirs : mnt[m][a] = <<"dm">>
         /\ \A l \in Loops : loops[l] # NoAtom =>
              \/ Present(loops[l]) /\ dm[loops[l]].loop = l
              \/ pc[p] \in {"activate", "detach"} /\ loop[p] = l
<1>1. DevicesClean /\ \A q \in Procs \ {p} : pc[q] \notin Critical
  BY AtWork
<1>2. \A a \in Atoms : Present(a) => dm[a] \in Device
  BY AtWork DEF TypeOK, KernelTypes, Present
<1>. QED BY <1>1, <1>2 DEF DevicesClean, Held

(* The steps that leave them all alone.                                    *)
LEMMA QuietDevices ==
  ASSUME SafeInv, CleanInv, NEW p \in Procs, Run(p) \/ Crash(p), pc[p] \in Critical,
         UNCHANGED <<dm, mnt, loops>>, MountHealthy(p) \/ UmountHealthy(p),
         NEW a \in Atoms, Present(a), Held(p, a)
  PROVE  Held(p, a)' \/ \E m \in MetaDirs : mnt'[m][a] = <<"dm">>
<1>0. /\ pc \in [Procs -> Steps] /\ MountsOK /\ dm \in [Atoms -> Device \cup {NoDevice}]
      /\ Meta(p) \in MetaDirs /\ LocalsOK(p)
      /\ mnt \in [MetaDirs -> [Atoms -> Seq({"dm", "plain"})]]
      /\ MountingOK(p)
  BY AtWork DEF TypeOK, KernelTypes
<1>1. cmd' = cmd
  BY AtWork, Frame
<1>2. CASE pc[p] \in {"confirmValidity", "mountDevice"}
  <2>1. ~UmountHealthy(p)
    BY <1>2 DEF UmountHealthy, FindOverlay, FindOverlayFails, UmountTop, UmountTopFails, UmountAtom, AtLower, CheckUsed, Deactivate, Detach, LowersDone, RemoveMeta, RemoveMetaFails
  <2>2. ~MountDevice(p)
    <3>1. ASSUME MountDevice(p) PROVE mnt'[Meta(p)][Atom(p)] # << >> /\ mnt[Meta(p)][Atom(p)] = << >>
      <4>1. pc[p] = "mountDevice" /\ Atom(p) \in Atoms
        BY <1>0, <3>1, AtWork, AtomType DEF MountDevice
      <4>2. mnt[Meta(p)][Atom(p)] = << >>
        BY <1>0, <4>1 DEF MountingOK
      <4>3. mnt'[Meta(p)][Atom(p)] = Append(<< >>, "dm")
        BY <1>0, <3>1, <4>1, <4>2 DEF MountDevice
      <4>. QED BY <4>2, <4>3, Stacks
    <3>. QED BY <3>1
  <2>3. ConfirmValidity(p) /\ pc'[p] = "mountDevice"
    BY <1>2, <2>1, <2>2 DEF MountHealthy, OverlayLowerDirs, MakeMountpoint, AtNextAtom, FsMount, MountPlain, StatDevice, AttachLoop, Activate, ConfirmHash, AtomsDone, WriteConfig, MountOverlay
  <2>4. idx' = idx
    BY <1>0, <2>3 DEF ConfirmValidity, FailMount, locals
  <2>. QED BY <1>1, <1>2, <2>3, <2>4 DEF Held, Atom, Image
<1>3. CASE pc[p] \in {"checkUsed", "deactivate"}
  <2>1. ~MountHealthy(p)
    BY <1>3 DEF MountHealthy, OverlayLowerDirs, MakeMountpoint, AtNextAtom, FsMount, MountPlain, StatDevice, AttachLoop, Activate, ConfirmHash, ConfirmValidity, MountDevice, AtomsDone, WriteConfig, MountOverlay
  <2>2. CheckUsed(p)
    <3>1. ~Deactivate(p)
      BY <1>0 DEF Deactivate, Present, LocalsOK, LowerSteps
    <3>. QED BY <1>3, <2>1, <3>1 DEF UmountHealthy, FindOverlay, FindOverlayFails, UmountTop, UmountTopFails, UmountAtom, AtLower, Detach, LowersDone, RemoveMeta, RemoveMetaFails
  <2>3. Lower(p) = a
    BY <1>3 DEF Held
  <2>4. CASE UsedHere(Meta(p), a)
    <3>1. PICK n \in MetaDirs : "dm" \in ToSet(mnt[n][a])
      BY <2>4 DEF UsedHere
    <3>2. mnt[n][a] = <<"dm">>
      BY <1>0, <3>1, PlainStack DEF MountsOK
    <3>. QED BY <3>2
  <2>5. CASE ~UsedHere(Meta(p), a)
    <3>1. pc'[p] = "deactivate" /\ idx' = idx /\ lower' = lower
      BY <1>0, <2>2, <2>3, <2>5 DEF CheckUsed, Goto
    <3>. QED BY <2>3, <3>1 DEF Held, Lower
  <2>. QED BY <2>4, <2>5
<1>. QED BY <1>2, <1>3 DEF Held

(* DevicesClean after a step of p.                                         *)
Kept(p) ==
  /\ \A a \in Atoms : Present(a) =>
       /\ a \in Wanted /\ dm[a].hash = BlobHash[a] /\ loops[dm[a].loop] = a
       /\ Held(p, a) \/ \E m \in MetaDirs : mnt[m][a] = <<"dm">>
  /\ \A l \in Loops : loops[l] # NoAtom =>
       \/ Present(loops[l]) /\ dm[loops[l]].loop = l
       \/ pc[p] \in {"activate", "detach"} /\ loop[p] = l

LEMMA HolderStep ==
  ASSUME CommonLock, Undisturbed, SafeInv, CleanInv, NEW p \in Procs, Run(p) \/ Crash(p),
         pc[p] \in Critical
  PROVE  Kept(p)'
<1>0. /\ pc \in [Procs -> Steps] /\ MountsOK /\ dm \in [Atoms -> Device \cup {NoDevice}]
      /\ Meta(p) \in MetaDirs /\ LocalsOK(p) /\ MountClean(p) /\ UmountClean(p) /\ UmountOK(p)
      /\ mnt \in [MetaDirs -> [Atoms -> Seq({"dm", "plain"})]] /\ KernelTypes /\ TypeOK
      /\ loops \in [Loops -> Atoms \cup {NoAtom}] /\ loop \in [Procs -> Loops \cup {NoLoop}]
      /\ idx \in [Procs -> Nat] /\ MountingOK(p)
  BY AtWork DEF TypeOK, KernelTypes, LocalTypes
<1>1. cmd' = cmd
  BY AtWork, Frame
<1>2. /\ \A a \in Atoms : Present(a) =>
           /\ a \in Wanted /\ dm[a].hash = BlobHash[a] /\ loops[dm[a].loop] = a
           /\ dm[a] \in Device
           /\ Held(p, a) \/ \E m \in MetaDirs : mnt[m][a] = <<"dm">>
      /\ \A l \in Loops : loops[l] # NoAtom =>
           \/ Present(loops[l]) /\ dm[loops[l]].loop = l
           \/ pc[p] \in {"activate", "detach"} /\ loop[p] = l
  BY HolderDevices
<1>3. MountHealthy(p) \/ UmountHealthy(p)
  BY Healthy DEF BeginHealthy, StartMount, StartUmount, EnsureDir, MakeLock, Flock
<1>. DEFINE Mnt(a) == \E m \in MetaDirs : mnt[m][a] = <<"dm">>
<1>4. CASE UNCHANGED <<dm, mnt, loops>>
  <2>1. \A a \in Atoms : Present(a)' => Held(p, a)' \/ Mnt(a)'
    BY <1>2, <1>3, <1>4, QuietDevices DEF Present
  <2>2. ~(pc[p] = "activate" \/ pc[p] = "detach")
    <3>1. ~Activate(p)
      <4>1. Activate(p) => dm'[Atom(p)] # NoDevice /\ dm[Atom(p)] = NoDevice
        <5>1. Activate(p) => /\ Atom(p) \in Atoms /\ Hash(p) \in Hashes /\ loop[p] \in Loops
                             /\ ~Present(Atom(p))
          BY <1>0, AtomType DEF Activate, LocalsOK, VeritySteps
        <5>2. Activate(p) => dm'[Atom(p)] = [hash |-> Hash(p), loop |-> loop[p]]
          BY <1>0, <5>1 DEF Activate
        <5>3. Activate(p) => dm'[Atom(p)] \in Device
          BY <5>1, <5>2 DEF Device
        <5>. QED BY <5>1, <5>3, NoneAssumption DEF Present
      <4>. QED BY <1>4, <4>1
    <3>2. ~(Detach(p) /\ loops' = Detached(loop[p]))
      <4>. SUFFICES ASSUME Detach(p), loops' = Detached(loop[p]) PROVE FALSE
        OBVIOUS
      <4>1. pc[p] = "detach" /\ loop[p] \in Loops /\ loops[loop[p]] = Lower(p)
            /\ ~Present(Lower(p)) /\ Lower(p) \in Atoms
        BY <1>0 DEF Detach, UmountClean, UmountOK, LocalsOK, LowerSteps
      <4>2. \A a \in Atoms : Present(a) => dm[a].loop # loop[p]
        BY <1>2, <4>1
      <4>3. loops'[loop[p]] = NoAtom
        BY <1>0, <4>1, <4>2 DEF Detached
      <4>. QED BY <1>4, <4>1, <4>3, NoneAssumption
    <3>. QED BY <1>3, <3>1, <3>2 DEF MountHealthy, OverlayLowerDirs, MakeMountpoint, AtNextAtom, FsMount, MountPlain, StatDevice, AttachLoop, ConfirmHash, ConfirmValidity, MountDevice, AtomsDone, WriteConfig, MountOverlay, UmountHealthy, FindOverlay, FindOverlayFails, UmountTop, UmountTopFails, UmountAtom, AtLower, CheckUsed, Deactivate, LowersDone, RemoveMeta, RemoveMetaFails
  <2>. QED BY <1>2, <1>4, <2>1, <2>2 DEF Kept, Present
<1>5. CASE AttachLoop(p)
  <2>1. PICK l \in Loops : /\ loops[l] = NoAtom /\ loops' = [loops EXCEPT ![l] = Atom(p)]
                           /\ loop' = [loop EXCEPT ![p] = l]
    BY <1>5 DEF AttachLoop
  <2>2. /\ pc[p] = "attachLoop" /\ pc'[p] = "activate" /\ UNCHANGED <<dm, mnt>>
        /\ loop'[p] = l
    BY <1>0, <1>5, <2>1 DEF AttachLoop, Goto
  <2>3. ASSUME NEW a \in Atoms, Present(a)'
        PROVE  Present(a) /\ Mnt(a)' /\ dm[a].loop \in Loops /\ dm[a].loop # l
    <3>1. Present(a) /\ ~Held(p, a)
      BY <2>2, <2>3 DEF Held, Present
    <3>2. Mnt(a)'
      BY <1>2, <2>2, <3>1
    <3>3. dm[a].loop \in Loops /\ loops[dm[a].loop] = a
      BY <1>2, <3>1 DEF Device
    <3>. QED BY <2>1, <3>1, <3>2, <3>3, NoneAssumption
  <2>4. \A k \in Loops : k # l => loops'[k] = loops[k]
    BY <1>0, <2>1
  <2>. QED BY <1>0, <1>2, <2>2, <2>3, <2>4 DEF Kept, Present
<1>6. CASE Activate(p)
  <2>1. /\ pc[p] = "activate" /\ pc'[p] = "confirmValidity" /\ UNCHANGED <<loops, loop, idx, mnt>>
        /\ ~Present(Atom(p)) /\ dm' = [dm EXCEPT ![Atom(p)] = [hash |-> Hash(p), loop |-> loop[p]]]
    BY <1>0, <1>6 DEF Activate, Goto, locals
  <2>2. /\ Atom(p) \in Atoms /\ Atom(p) \in Wanted /\ Hash(p) = BlobHash[Atom(p)]
        /\ loop[p] \in Loops /\ loops[loop[p]] = Atom(p) /\ Atom(p)' = Atom(p)
    <3>1. cmd[p] \in MountCmd /\ ByVerity(p) /\ loop[p] \in Loops /\ loops[loop[p]] = Atom(p)
      BY <1>0, <2>1 DEF LocalsOK, MountClean, VeritySteps
    <3>. QED BY <1>1, <2>1, <3>1, Fit DEF Atom, Image
  <2>3. dm'[Atom(p)].hash = BlobHash[Atom(p)] /\ dm'[Atom(p)].loop = loop[p]
    BY <1>0, <2>1, <2>2
  <2>4. \A a \in Atoms : a # Atom(p) => dm'[a] = dm[a]
    BY <1>0, <2>1
  <2>5. Held(p, Atom(p))'
    BY <2>1, <2>2 DEF Held
  <2>6. \A a \in Atoms : a # Atom(p) /\ Present(a) => Mnt(a)'
    BY <1>2, <2>1 DEF Held
  <2>7. Present(Atom(p))'
    BY <1>0, <2>1, <2>2, NoneAssumption DEF Present, LocalsOK, VeritySteps, Device
  <2>8. ASSUME NEW a \in Atoms, Present(a)'
        PROVE  /\ a \in Wanted /\ dm'[a].hash = BlobHash[a] /\ loops'[dm'[a].loop] = a
               /\ Held(p, a)' \/ Mnt(a)'
    <3>1. CASE a = Atom(p)
      BY <2>1, <2>2, <2>3, <2>5, <3>1
    <3>2. CASE a # Atom(p)
      <4>1. dm'[a] = dm[a] /\ Present(a)
        BY <2>4, <2>8, <3>2 DEF Present
      <4>. QED BY <1>2, <2>1, <2>6, <3>2, <4>1
    <3>. QED BY <3>1, <3>2
  <2>9. \A l \in Loops : loops'[l] # NoAtom =>
          dm'[loops'[l]] # NoDevice /\ dm'[loops'[l]].loop = l
    <3>. SUFFICES ASSUME NEW l \in Loops, loops[l] # NoAtom
                  PROVE  dm'[loops[l]] # NoDevice /\ dm'[loops[l]].loop = l
      BY <2>1
    <3>1. CASE loop[p] = l
      BY <2>2, <2>3, <2>7, <3>1 DEF Present
    <3>2. CASE Present(loops[l]) /\ dm[loops[l]].loop = l
      <4>1. loops[l] \in Atoms /\ loops[l] # Atom(p)
        BY <1>0, <2>1, <3>2
      <4>. QED BY <2>4, <3>2, <4>1 DEF Present
    <3>. QED BY <1>2, <3>1, <3>2
  <2>. QED BY <2>8, <2>9 DEF Kept, Present
<1>7. CASE MountDevice(p) \/ MountPlain(p)
  <2>1. UNCHANGED <<dm, loops>> /\ pc[p] \in {"mountDevice", "mountPlain"}
    BY <1>7 DEF MountDevice, MountPlain
  <2>2. Atom(p) \in Atoms /\ mnt[Meta(p)][Atom(p)] = << >>
    BY <1>0, <2>1, AtomType DEF MountingOK
  <2>3. \A a \in Atoms : Mnt(a) => Mnt(a)'
    <3>. SUFFICES ASSUME NEW a \in Atoms, NEW m \in MetaDirs, mnt[m][a] = <<"dm">> PROVE mnt'[m][a] = <<"dm">>
      OBVIOUS
    <3>. QED BY <1>0, <2>1, <2>2, Stacks, MountChanges DEF SafeInv, Releasing
  <2>4. pc[p] = "mountDevice" => mnt'[Meta(p)][Atom(p)] = <<"dm">>
    BY <1>0, <1>7, <2>2, Stacks DEF MountDevice, MountPlain
  <2>5. \A a \in Atoms : Held(p, a) => Mnt(a)'
    BY <1>0, <2>1, <2>4 DEF Held
  <2>. QED BY <1>2, <2>1, <2>3, <2>5 DEF Kept, Present
<1>8. CASE UmountAtom(p)
  <2>1. /\ UNCHANGED <<dm, loops>> /\ pc[p] = "nextLower" /\ Lower(p) \in Atoms
        /\ lower' = lower
    BY <1>8 DEF UmountAtom, AtLower, MountedLower
  <2>2. \A m \in MetaDirs, a \in Atoms :
           mnt'[m][a] = IF m = Meta(p) /\ a = Lower(p) THEN << >> ELSE mnt[m][a]
    BY <1>0, <1>8, UmountsOne
  <2>3. mnt[Meta(p)][Lower(p)] = <<"dm">> => pc'[p] = "checkUsed" /\ Lower(p)' = Lower(p)
    <3>1. mnt[Meta(p)][Lower(p)] = <<"dm">> => pc'[p] = "checkUsed" /\ idx' = idx
      BY <1>0, <1>8, Stacks DEF UmountAtom, Goto
    <3>. QED BY <2>1, <3>1 DEF Lower
  <2>4. ASSUME NEW a \in Atoms, Present(a) PROVE Held(p, a)' \/ Mnt(a)'
    <3>1. PICK m \in MetaDirs : mnt[m][a] = <<"dm">>
      BY <1>2, <2>1, <2>4 DEF Held
    <3>2. CASE m = Meta(p) /\ a = Lower(p)
      BY <2>3, <3>1, <3>2 DEF Held
    <3>3. CASE ~(m = Meta(p) /\ a = Lower(p))
      BY <2>2, <3>1, <3>3
    <3>. QED BY <3>2, <3>3
  <2>. QED BY <1>2, <2>1, <2>4 DEF Kept, Present
<1>9. CASE Deactivate(p)
  <2>1. /\ pc[p] = "deactivate" /\ pc'[p] = "detach" /\ UNCHANGED <<loops, loop, mnt>>
        /\ dm' = [dm EXCEPT ![Lower(p)] = NoDevice] /\ Present(Lower(p))
    BY <1>0, <1>9 DEF Deactivate, Goto
  <2>2. Lower(p) \in Atoms /\ loop[p] = dm[Lower(p)].loop
    BY <1>0, <2>1 DEF LocalsOK, LowerSteps, UmountClean
  <2>3. \A a \in Atoms : dm'[a] = IF a = Lower(p) THEN NoDevice ELSE dm[a]
    BY <1>0, <2>1, <2>2
  <2>4. \A a \in Atoms : a # Lower(p) => ~Held(p, a)
    BY <2>1 DEF Held
  <2>5. \A a \in Atoms : Present(a)' => Present(a) /\ a # Lower(p) /\ dm'[a] = dm[a] /\ Mnt(a)'
    BY <1>2, <2>1, <2>3, <2>4 DEF Present
  <2>6. \A l \in Loops : loops[l] # NoAtom /\ loop[p] # l =>
          dm'[loops[l]] # NoDevice /\ dm'[loops[l]].loop = l
    <3>1. \A l \in Loops : loops[l] # NoAtom => loops[l] \in Atoms
      BY <1>0
    <3>. QED BY <1>2, <2>1, <2>2, <2>3, <3>1 DEF Present
  <2>7. ASSUME NEW a \in Atoms, Present(a)'
        PROVE  /\ a \in Wanted /\ dm'[a].hash = BlobHash[a] /\ loops'[dm'[a].loop] = a
               /\ Mnt(a)'
    BY <1>2, <2>1, <2>5, <2>7
  <2>. QED BY <2>1, <2>6, <2>7 DEF Kept, Present
<1>10. CASE Detach(p) /\ pc'[p] = "nextLower" /\ loops' = Detached(loop[p])
  <2>1. pc[p] = "detach" /\ UNCHANGED <<dm, mnt>>
    BY <1>10 DEF Detach
  <2>2. loop[p] \in Loops /\ loops[loop[p]] = Lower(p) /\ ~Present(Lower(p)) /\ Lower(p) \in Atoms
    BY <1>0, <2>1 DEF UmountClean, UmountOK, LocalsOK, LowerSteps
  <2>3. \A a \in Atoms : Present(a) => dm[a].loop # loop[p] /\ dm[a].loop \in Loops
    BY <1>2, <2>2 DEF Device
  <2>4. loops' = [loops EXCEPT ![loop[p]] = NoAtom]
    BY <1>10, <2>3 DEF Detached
  <2>5. \A l \in Loops : loops'[l] = IF l = loop[p] THEN NoAtom ELSE loops[l]
    BY <1>0, <2>4
  <2>6. \A a \in Atoms : ~Held(p, a)
    BY <2>1 DEF Held
  <2>. QED BY <1>2, <2>1, <2>3, <2>5, <2>6 DEF Kept, Present
<1>. QED
  <2>1. UNCHANGED <<dm, mnt, loops>> \/ AttachLoop(p) \/ Touches(p) \/ (Detach(p) /\ loops' = Detached(loop[p]))
    BY <1>3, OutsideLoops, Footprint
  <2>2. MountOverlay(p) \/ UmountTop(p) => UNCHANGED <<dm, mnt, loops>>
    BY DEF MountOverlay, UmountTop
  <2>3. ~UndoDevice(p) /\ ~MountPlainDies(p)
    BY <1>0 DEF UndoDevice, MountClean, MountPlainDies, MayGiveUp, Undisturbed
  <2>4. Detach(p) => Detach(p) /\ pc'[p] = "nextLower" /\ loops' = Detached(loop[p])
    <3>1. Detach(p) => pc[p] = "detach"
      BY DEF Detach
    <3>. QED BY <1>3, <3>1 DEF MountHealthy, OverlayLowerDirs, MakeMountpoint, AtNextAtom, FsMount, MountPlain, StatDevice, AttachLoop, Activate, ConfirmHash, ConfirmValidity, MountDevice, AtomsDone, WriteConfig, MountOverlay, UmountHealthy, FindOverlay, FindOverlayFails, UmountTop, UmountTopFails, UmountAtom, AtLower, CheckUsed, Deactivate, LowersDone, RemoveMeta
  <2>. QED BY <1>4, <1>5, <1>6, <1>7, <1>8, <1>9, <1>10, <2>1, <2>2, <2>3, <2>4 DEF Touches

LEMMA DevicesStep ==
  ASSUME CommonLock, Undisturbed, SafeInv, CleanInv, NEW p \in Procs, Run(p) \/ Crash(p)
  PROVE  DevicesClean'
<1>0. DevicesClean /\ pc \in [Procs -> Steps]
  BY AtWork
<1>1. corrupt' = {}
  BY <1>0, Healthy, NoCorruption DEF DevicesClean
<1>2. CASE pc[p] \in Critical
  <2>1. Kept(p)'
    BY <1>2, HolderStep
  <2>. QED BY <1>1, <2>1 DEF Kept, Held, DevicesClean
<1>3. CASE pc[p] \notin Critical
  <2>1. UNCHANGED <<dm, mnt>>
    BY <1>3, OutsideTouchesNothing
  <2>2. loops' = loops
    BY <1>3, Healthy, OutsideLoops DEF AttachLoop, Detach
  <2>3. ASSUME NEW q \in Procs, pc[q] \in Critical
        PROVE  /\ pc'[q] = pc[q] /\ loop'[q] = loop[q]
               /\ Atom(q)' = Atom(q) /\ Lower(q)' = Lower(q)
    BY <1>3, <2>3, AtWork, Frame DEF Atom, Image, Lower
  <2>4. ASSUME NEW a \in Atoms, Present(a)'
        PROVE  /\ a \in Wanted /\ dm'[a].hash = BlobHash[a] /\ loops'[dm'[a].loop] = a
               /\ \/ \E m \in MetaDirs : mnt'[m][a] = <<"dm">>
                  \/ \E q \in Procs :
                       \/ pc'[q] \in {"confirmValidity", "mountDevice"} /\ Atom(q)' = a
                       \/ pc'[q] \in {"checkUsed", "deactivate"} /\ Lower(q)' = a
    BY <1>0, <2>1, <2>2, <2>3, <2>4 DEF DevicesClean, Present
  <2>5. ASSUME NEW l \in Loops, loops'[l] # NoAtom
        PROVE  \/ dm'[loops'[l]] # NoDevice /\ dm'[loops'[l]].loop = l
               \/ \E q \in Procs : pc'[q] \in {"activate", "detach"} /\ loop'[q] = l
    BY <1>0, <2>1, <2>2, <2>3, <2>5 DEF DevicesClean, Present
  <2>. QED BY <1>1, <2>4, <2>5 DEF DevicesClean, Present
<1>. QED BY <1>2, <1>3

-----------------------------------------------------------------------------
(* Places stay in order.                                                   *)

Owns(p, m) ==
  Meta(p) = m /\ pc[p] # "ensureDir" /\ (Mounting(p) \/ pc[p] \in Releasing)

(* The owner of a metadata directory has it until it leaves a molecule     *)
(* there or removes it.                                                    *)
LEMMA OwnerStep ==
  ASSUME CommonLock, Undisturbed, SafeInv, CleanInv, NEW p \in Procs, Run(p) \/ Crash(p),
         Owns(p, Meta(p)), Meta(p) \in metadirs'
  PROVE  ~NothingOn(Meta(p))' \/ Owns(p, Meta(p))'
<1>0. /\ TypeOK /\ LocalsOK(p) /\ PlaceOK(p) /\ pc \in [Procs -> Steps] /\ Target(p) \in Targets
      /\ Meta(p) = MetaOf[Target(p)]
  BY AtWork DEF Meta
<1>1. cmd' = cmd /\ Meta(p)' = Meta(p)
  BY <1>0, Frame DEF Meta, Target
<1>. USE <1>0 DEF Owns, Goto, Exit
<1>2. CASE BeginHealthy(p)
  <2>1. Mounting(p) /\ pc[p] # "ensureDir"
    BY <1>2 DEF BeginHealthy, StartMount, StartUmount, EnsureDir, MakeLock, Flock, Releasing
  <2>2. MakeLock(p) \/ Flock(p)
    BY <1>2, <2>1 DEF BeginHealthy, StartMount, StartUmount, EnsureDir, Mounting
  <2>. QED BY <1>1, <2>1, <2>2 DEF MakeLock, Flock, Mounting
<1>3. CASE MountHealthy(p)
  <2>1. CASE MountOverlay(p)
    <3>1. NothingOn(Meta(p)) /\ ovl'[Target(p)] = <<NewOverlay(p)>>
      BY <2>1, OverlayByMount, AfterMount DEF PlaceOK
    <3>2. <<NewOverlay(p)>> # << >>
      <4>. DEFINE o == NewOverlay(p)
      <4>. HIDE DEF o
      <4>1. <<o>> # << >>
        OBVIOUS
      <4>. QED BY <4>1 DEF o
    <3>. QED BY <1>1, <3>1, <3>2 DEF NothingOn
  <2>2. CASE ~MountOverlay(p)
    <3>1. pc'[p] \in MountSteps /\ pc[p] \in MountSteps
      BY <1>3, <2>2 DEF MountHealthy, OverlayLowerDirs, MakeMountpoint, AtNextAtom, FsMount, MountPlain, StatDevice, AttachLoop, Activate, ConfirmHash, ConfirmValidity, MountDevice, AtomsDone, WriteConfig
    <3>. QED BY <1>1, <3>1 DEF Mounting, LocalsOK, MountCmd
  <2>. QED BY <2>1, <2>2
<1>4. CASE UmountHealthy(p)
  <2>1. ~FindOverlay(p) /\ ~FindOverlayFails(p) /\ ~UmountTop(p) /\ ~UmountTopFails(p)
    BY DEF FindOverlay, FindOverlayFails, UmountTop, UmountTopFails, Releasing, Mounting, LocalsOK
  <2>2. ~RemoveMeta(p) \/ MayFail(p) \/ MountedIn(Meta(p))
    BY DEF RemoveMeta, RemoveAll
  <2>3. pc'[p] \in Releasing
    BY <1>4, <2>1, <2>2 DEF UmountHealthy, UmountAtom, AtLower, CheckUsed, Deactivate, Detach, LowersDone, Releasing
  <2>. QED BY <1>1, <2>3 DEF Releasing
<1>. QED BY <1>2, <1>3, <1>4, Healthy

LEMMA PlacesStep ==
  ASSUME CommonLock, Undisturbed, SafeInv, CleanInv, SafeInv', NEW p \in Procs, Run(p) \/ Crash(p)
  PROVE  PlacesClean'
<1>0. /\ TypeOK /\ LocalsOK(p) /\ PlaceOK(p) /\ PlacesClean /\ PlaceInv /\ OnlyLayers /\ IndInv
      /\ pc \in [Procs -> Steps] /\ Target(p) \in Targets /\ OneMolecule /\ MountsOK
      /\ Meta(p) = MetaOf[Target(p)] /\ Meta(p) \in MetaDirs /\ LocalsInv
  BY AtWork DEF Meta, SafeInv, PlaceInv, IndInv, LocalsInv
<1>1. /\ cmd' = cmd /\ \A q \in Procs : Meta(q)' = Meta(q) /\ (q # p => pc'[q] = pc[q])
      /\ \A q \in Procs \ {p} : Mounting(q)' <=> Mounting(q)
  <2>1. cmd' = cmd /\ \A q \in Procs : q # p => pc'[q] = pc[q]
    BY <1>0, Frame
  <2>. QED BY <2>1 DEF Meta, Target, Mounting
<1>2. ASSUME NEW m \in metadirs'
      PROVE  ~NothingOn(m)' \/ \E q \in Procs : Owns(q, m)'
  <2>0. m \in MetaDirs
    BY DEF SafeInv, IndInv, TypeOK, FileTypes
  <2>1. CASE m \notin metadirs
    <3>1. EnsureDir(p) \/ OverlayLowerDirs(p) \/ MakeMountpoint(p)
      BY <2>1, FilesFootprint DEF TouchesFiles, WriteConfig, Cleanup, RemoveMeta, RemoveAll
    <3>2. m = Meta(p) /\ pc'[p] \in {"makeLock", "nextAtom", "prepare"}
      BY <1>0, <2>1, <3>1 DEF EnsureDir, OverlayLowerDirs, MakeMountpoint, Goto, Exit
    <3>3. cmd[p] \in MountCmd
      BY <1>0, <3>1 DEF LocalsOK, EnsureDir, OverlayLowerDirs, MakeMountpoint, AtNextAtom
    <3>. QED BY <1>1, <3>2, <3>3 DEF Owns, Mounting, MountCmd
  <2>2. CASE m \in metadirs /\ ~NothingOn(m)
    <3>1. PICK t \in Targets : MetaOf[t] = m /\ ovl[t] # << >>
      BY <2>2 DEF NothingOn
    <3>2. CASE ovl'[t] # << >>
      BY <3>1, <3>2 DEF NothingOn
    <3>3. CASE ovl'[t] = << >>
      <4>1. ~MountOverlay(p)
        <5>1. MountOverlay(p) => Meta(p) # m
          BY <1>0, <3>1, OverlayByMount DEF PlaceOK, NothingOn
        <5>2. MountOverlay(p) => (t # Target(p) => ovl'[t] = ovl[t])
          BY DEF MountOverlay
        <5>. QED BY <1>0, <3>1, <3>3, <5>1, <5>2
      <4>2. UmountTop(p)
        BY <3>1, <3>3, <4>1, OverlayChanges
      <4>3. t = Target(p)
        BY <1>0, <3>1, <3>3, <4>2, AfterUmount
      <4>4. pc'[p] = "nextLower"
        BY <1>0, <4>2 DEF UmountTop, Goto
      <4>. QED BY <1>0, <1>1, <3>1, <4>3, <4>4 DEF Owns, Releasing
    <3>. QED BY <3>2, <3>3
  <2>3. CASE m \in metadirs /\ NothingOn(m)
    <3>1. PICK q \in Procs : Owns(q, m)
      BY <1>0, <2>3 DEF PlacesClean, Owns
    <3>2. CASE q = p
      <4>1. m = Meta(p) /\ Owns(p, Meta(p))
        BY <3>1, <3>2 DEF Owns
      <4>2. ~NothingOn(Meta(p))' \/ Owns(p, Meta(p))'
        BY <4>1, OwnerStep
      <4>. QED BY <1>1, <4>1, <4>2 DEF Owns, NothingOn
    <3>3. CASE q # p
      BY <1>1, <3>1, <3>3 DEF Owns
    <3>. QED BY <3>2, <3>3
  <2>. QED BY <2>1, <2>2, <2>3
<1>3. ASSUME NEW t \in Targets, ovl'[t] # << >>
      PROVE  /\ ovl'[t][1].over # "stray" /\ IsInjective(Layers[ovl'[t][1].image])
             /\ ovl'[t][1].gaps = {}
             /\ \A a \in Atoms : mnt'[MetaOf[t]][a] = <<"dm">> => a \in ovl'[t][1].pins
  <2>1. 1 \in DOMAIN ovl'[t]
    <3>1. ovl'[t] \in Seq(Overlay)
      BY DEF SafeInv, IndInv, TypeOK, KernelTypes
    <3>. QED BY <1>3, <3>1, EmptySeq, LenProperties
  <2>2. CASE 1 \in DOMAIN ovl[t] /\ ovl'[t][1] = ovl[t][1]
    <3>1. ovl[t] # << >> /\ MetaOf[t] \in MetaDirs
      BY <2>2, WorldAssumption
    <3>2. \A a \in Atoms : mnt'[MetaOf[t]][a] = mnt[MetaOf[t]][a]
      <4>1. pc[p] \in Releasing \/ Mounting(p) => MetaOf[t] # Meta(p)
        BY <1>0, <3>1 DEF PlaceOK, NothingOn
      <4>. QED BY <1>0, <3>1, <4>1, MountChanges
    <3>. QED BY <1>0, <2>2, <3>1, <3>2 DEF PlacesClean
  <2>3. CASE MountOverlay(p) /\ t = Target(p) /\ ovl'[t][1] = NewOverlay(p)
    <3>1. /\ ovl'[t][1].image = Image(p) /\ ovl'[t][1].over = cmd[p].over /\ mnt' = mnt
          /\ ovl'[t][1].pins = {a \in ToSet(Layers[Image(p)]) : DevOnTop(Meta(p), a)}
          /\ ovl'[t][1].gaps = {a \in ToSet(Layers[Image(p)]) : MayGiveUp(p) /\ mnt[Meta(p)][a] = << >>}
      BY <2>3 DEF MountOverlay, NewOverlay
    <3>2. cmd[p] \in MountCmd /\ Mounting(p)
      BY <1>0, <2>3, OverlayByMount, OpType DEF Mounting
    <3>3. cmd[p].over # "stray" /\ IsInjective(Layers[Image(p)])
      BY <3>2, Fit
    <3>4. \A a \in Atoms : mnt[Meta(p)][a] = <<"dm">> =>
            a \in ToSet(Layers[Image(p)]) /\ DevOnTop(Meta(p), a)
      BY <1>0, <3>2, Stacks DEF OnlyLayers, DevOnTop
    <3>5. ~MayGiveUp(p)
      BY DEF MayGiveUp, Undisturbed
    <3>. QED BY <1>0, <2>3, <3>1, <3>3, <3>4, <3>5
  <2>. QED BY <1>0, <2>1, <2>2, <2>3, WhichOverlay
<1>4. \A m \in metadirs' :
        \/ ~NothingOn(m)'
        \/ \E q \in Procs : Meta(q)' = m /\ pc'[q] # "ensureDir"
                            /\ (Mounting(q)' \/ pc'[q] \in Releasing)
  BY <1>2 DEF Owns
<1>. QED BY <1>3, <1>4 DEF PlacesClean

-----------------------------------------------------------------------------
(* The invariant of undisturbed runs, and what it is for.                  *)

LEMMA CleanInitially ==
  ASSUME Init
  PROVE  CleanInv
<1>1. /\ pc = [p \in Procs |-> "start"] /\ \A p \in Procs : cmd[p] \in Cmds[p]
      /\ metadirs = {} /\ dm = [a \in Atoms |-> NoDevice] /\ corrupt = {}
      /\ loops = [l \in Loops |-> NoAtom] /\ ovl = [t \in Targets |-> << >>]
  BY DEF Init
<1>2. DevicesClean /\ PlacesClean
  BY <1>1 DEF DevicesClean, PlacesClean, Present
<1>3. \A p \in Procs : MountClean(p) /\ UmountClean(p)
  BY <1>1 DEF MountClean, UmountClean, Mounting, Releasing, LoopSteps, VeritySteps
<1>. QED BY <1>1, <1>2, <1>3 DEF CleanInv

LEMMA CleanInductive ==
  ASSUME CommonLock, SerialMounts, Undisturbed, SafeInv, CleanInv, [Next]_vars
  PROVE  CleanInv'
<1>1. CASE \E p \in Procs : Run(p) \/ Crash(p)
  <2>. PICK p \in Procs : Run(p) \/ Crash(p)
    BY <1>1
  <2>1. DevicesClean' /\ PlacesClean'
    BY SafeStep, DevicesStep, PlacesStep
  <2>2. ASSUME NEW q \in Procs PROVE (cmd[q] \in Cmds[q] /\ MountClean(q) /\ UmountClean(q))'
    <3>1. cmd'[q] \in Cmds[q]
      BY AtWork, Frame
    <3>2. MountClean(q)' /\ UmountClean(q)'
      BY OthersClean, OwnMountClean, OwnUmountClean
    <3>. QED BY <3>1, <3>2
  <2>. QED BY <2>1, <2>2 DEF CleanInv
<1>2. CASE \E a \in Atoms : CorruptionFound(a)
  BY <1>2 DEF CorruptionFound, CleanInv, DevicesClean, Undisturbed
<1>3. CASE UNCHANGED vars
  <2>1. UNCHANGED <<pc, cmd, idx, loop, lower, metadirs, dm, corrupt, loops, mnt, ovl>>
    BY <1>3 DEF vars
  <2>2. /\ \A q : /\ Meta(q)' = Meta(q) /\ Image(q)' = Image(q) /\ Atom(q)' = Atom(q)
                  /\ Hash(q)' = Hash(q) /\ Lower(q)' = Lower(q)
                  /\ (Mounting(q)' <=> Mounting(q)) /\ (ByVerity(q)' <=> ByVerity(q))
        /\ \A a : Present(a)' <=> Present(a)
        /\ \A m : (MountedIn(m)' <=> MountedIn(m)) /\ (NothingOn(m)' <=> NothingOn(m))
    BY <2>1 DEF Meta, Target, Image, Atom, Hash, ByVerity, Lower, Mounting, Present, MountedIn, NothingOn
  <2>3. DevicesClean'
    BY <2>1, <2>2 DEF CleanInv, DevicesClean
  <2>4. PlacesClean'
    BY <2>1, <2>2 DEF CleanInv, PlacesClean
  <2>5. ASSUME NEW q \in Procs PROVE (cmd[q] \in Cmds[q] /\ MountClean(q) /\ UmountClean(q))'
    <3>1. MountClean(q)'
      BY <2>1, <2>2 DEF CleanInv, MountClean
    <3>2. UmountClean(q)'
      BY <2>1, <2>2 DEF CleanInv, UmountClean
    <3>. QED BY <2>1, <3>1, <3>2 DEF CleanInv
  <2>. QED BY <2>3, <2>4, <2>5 DEF CleanInv
<1>. QED BY <1>1, <1>2, <1>3 DEF Next, Terminated

LEMMA CleanAtRest ==
  ASSUME SafeInv, CleanInv
  PROVE  CleanWhenUnlocked
<1>. SUFFICES ASSUME \A p \in Procs : pc[p] \notin Critical
              PROVE  /\ \A a \in Atoms : Present(a) =>
                          \E t \in Targets : \E k \in DOMAIN ovl[t] : a \in ovl[t][k].pins
                     /\ \A l \in Loops : loops[l] # NoAtom =>
                          Present(loops[l]) /\ dm[loops[l]].loop = l
                     /\ \A m \in MetaDirs, a \in Atoms : mnt[m][a] # << >> =>
                          \E t \in Targets : \E k \in DOMAIN ovl[t] :
                            MetaOf[t] = m /\ a \in ToSet(Layers[ovl[t][k].image])
                     /\ \A m \in metadirs :
                          \/ \E t \in Targets : MetaOf[t] = m /\ ovl[t] # << >>
                          \/ \E p \in Procs : Meta(p) = m /\ Mounting(p)
  BY DEF CleanWhenUnlocked
<1>1. DevicesClean /\ PlacesClean /\ OnlyLayers /\ \A p \in Procs : MountClean(p)
  BY DEF SafeInv, CleanInv
<1>2. \A t \in Targets : ovl[t] # << >> => 1 \in DOMAIN ovl[t]
  <2>1. \A t \in Targets : ovl[t] \in Seq(Overlay)
    BY DEF SafeInv, IndInv, TypeOK, KernelTypes
  <2>. QED BY <2>1, EmptySeq, LenProperties
<1>3. ASSUME NEW m \in metadirs
      PROVE  \/ \E t \in Targets : MetaOf[t] = m /\ ovl[t] # << >>
             \/ \E p \in Procs : Meta(p) = m /\ Mounting(p) /\ ~MountedIn(m)
  BY <1>1 DEF PlacesClean, NothingOn, Releasing, MountClean, LoopSteps
<1>4. ASSUME NEW m \in MetaDirs, NEW a \in Atoms, mnt[m][a] # << >>
      PROVE  \E t \in Targets : /\ MetaOf[t] = m /\ 1 \in DOMAIN ovl[t] /\ ovl[t] # << >>
                                /\ a \in ToSet(Layers[ovl[t][1].image])
  <2>1. MountedIn(m) /\ m \in metadirs
    BY <1>1, <1>4 DEF MountedIn, OnlyLayers
  <2>2. PICK t \in Targets : MetaOf[t] = m /\ ovl[t] # << >>
    BY <1>3, <2>1
  <2>. QED BY <1>1, <1>2, <1>4, <2>2 DEF OnlyLayers
<1>5. ASSUME NEW a \in Atoms, Present(a)
      PROVE  \E t \in Targets : \E k \in DOMAIN ovl[t] : a \in ovl[t][k].pins
  <2>1. PICK m \in MetaDirs : mnt[m][a] = <<"dm">>
    BY <1>1, <1>5 DEF DevicesClean
  <2>2. PICK t \in Targets : MetaOf[t] = m /\ 1 \in DOMAIN ovl[t] /\ ovl[t] # << >>
    BY <1>4, <2>1, Stacks
  <2>. QED BY <1>1, <2>1, <2>2 DEF PlacesClean
<1>6. \A l \in Loops : loops[l] # NoAtom => Present(loops[l]) /\ dm[loops[l]].loop = l
  BY <1>1 DEF DevicesClean
<1>. QED BY <1>3, <1>4, <1>5, <1>6

LEMMA CarriesThrough ==
  ASSUME CommonLock, Undisturbed, SafeInv, CleanInv, [Next]_vars, NEW p \in Procs,
         pc[p] \in UmountSteps \ {"findOverlay", "umountTop"}
  PROVE  pc'[p] # "err"
<1>0. pc \in [Procs -> Steps] /\ LocalsOK(p) /\ PlaceOK(p)
  BY AtWork
<1>1. CASE Run(p) \/ Crash(p)
  <2>1. ~BeginHealthy(p)
    BY DEF BeginHealthy, StartMount, StartUmount, EnsureDir, MakeLock, Flock
  <2>2. ~MountHealthy(p)
    BY DEF MountHealthy, OverlayLowerDirs, MakeMountpoint, AtNextAtom, FsMount, MountPlain, StatDevice, AttachLoop, Activate, ConfirmHash, ConfirmValidity, MountDevice, AtomsDone, WriteConfig, MountOverlay
  <2>3. UmountHealthy(p)
    BY <1>1, <2>1, <2>2, Healthy
  <2>. QED BY <1>0, <2>3 DEF UmountHealthy, FindOverlay, FindOverlayFails, UmountTop, UmountTopFails, UmountAtom, AtLower, CheckUsed, Deactivate, LowersDone, RemoveMeta, RemoveAll, Goto, Exit
<1>2. CASE ~(Run(p) \/ Crash(p))
  <2>1. pc'[p] = pc[p]
    <3>1. ASSUME NEW q \in Procs, Run(q) \/ Crash(q) PROVE pc'[p] = pc[p]
      BY <1>2, <3>1, AtWork, Frame
    <3>2. (\E a \in Atoms : CorruptionFound(a)) \/ UNCHANGED vars => pc'[p] = pc[p]
      BY DEF CorruptionFound, invocation, vars
    <3>. QED BY <3>1, <3>2 DEF Next, Terminated
  <2>. QED BY <2>1
<1>. QED BY <1>1, <1>2

(* In an undisturbed run each device, loop device, mount and metadata      *)
(* directory belongs to a molecule or to the one invocation at work on it. *)
THEOREM CleanInvariance ==
  ASSUME CommonLock, SerialMounts, Undisturbed
  PROVE  Spec => [](SafeInv /\ CleanInv)
<1>1. Spec => []SafeInv
  <2>1. IndInv /\ PlaceInv /\ OnlyLayers /\ UmountInv => SafeInv
    BY DEF SafeInv
  <2>. QED BY <2>1, Invariance, PlaceInvariance, OnlyLayersInvariance, UmountInvariance, PTL
<1>2. Init => CleanInv
  BY CleanInitially
<1>3. SafeInv /\ CleanInv /\ [Next]_vars => CleanInv'
  BY CleanInductive
<1>. QED BY <1>1, <1>2, <1>3, PTL DEF Spec

(* Through any number of Mounts and Umounts that share layers nothing      *)
(* leaks: with the lock free there are only the devices, loop devices,     *)
(* mounts and directories of live molecules (molecule.go:176-179, 388-441, *)
(* verity.go:363-400).                                                     *)
THEOREM NothingLeaks ==
  ASSUME CommonLock, SerialMounts, Undisturbed
  PROVE  Spec => []CleanWhenUnlocked
<1>1. SafeInv /\ CleanInv => CleanWhenUnlocked
  BY CleanAtRest
<1>. QED BY <1>1, CleanInvariance, PTL

(* And no Umount that has taken its overlay off fails (molecule.go:383-    *)
(* 441): no device it takes down is busy, nothing it removes is gone.      *)
THEOREM UmountsComplete ==
  ASSUME CommonLock, SerialMounts, Undisturbed
  PROVE  Spec => UmountCompletes
<1>1. ASSUME SafeInv, CleanInv, [Next]_vars
      PROVE  \A p \in Procs : pc[p] \in UmountSteps \ {"findOverlay", "umountTop"}
                                => pc'[p] # "err"
  BY <1>1, CarriesThrough
<1>. QED BY <1>1, CleanInvariance, PTL DEF Spec, UmountCompletes
=============================================================================

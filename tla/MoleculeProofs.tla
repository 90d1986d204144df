--------------------------- MODULE MoleculeProofs ---------------------------
(***************************************************************************)
(* Proofs about Molecule, for any number of invocations, molecules, layers *)
(* and images, with any failures, kills and corruption; but for the types  *)
(* and the progress of an invocation, provided that all of them have one   *)
(* lock directory (CommonLock).                                            *)
(***************************************************************************)
EXTENDS Molecule, TLAPS, SequenceTheorems

USE DEF Critical, MountSteps, AtomSteps, UmountSteps, BeforeLock, Steps, Final

(* A step of one invocation leaves the variables of the others alone.      *)
LEMMA Frame ==
  ASSUME TypeOK, NEW p \in Procs, Run(p) \/ Crash(p)
  PROVE  /\ cmd' = cmd
         /\ \A q \in Procs : q # p =>
              /\ pc'[q] = pc[q] /\ fd'[q] = fd[q] /\ idx'[q] = idx[q]
              /\ loop'[q] = loop[q] /\ lower'[q] = lower[q] /\ tries'[q] = tries[q]
<1>. USE DEF TypeOK, InvocationTypes, LocalTypes, FileTypes, KernelTypes, Goto, Exit, FailMount, locals, files, kernel
<1>1. CASE BeforeLockStep(p)
  BY <1>1 DEF BeforeLockStep, StartMount, StartUmount, EnsureDir, MakeLock, MakeLockFails, Flock, FlockFails
<1>2. CASE VerityMountStep(p)
  BY <1>2 DEF VerityMountStep, StatDevice, AttachLoop, AttachLoopFails, Activate, ActivateFails, ConfirmHash, ConfirmValidity, MountDevice, MountDeviceFails, UndoDevice, UndoLoop
<1>3. CASE MountStep(p)
  BY <1>3 DEF MountStep, OverlayLowerDirs, RefuseAtom, ReuseMounted, MakeMountpoint, FsMount, FsMountFails, MountPlain, MountPlainGivesUp, MountPlainDies, MountPlainFails, AtomsDone, WriteConfig, WriteConfigFails, MountOverlay, MountOverlayFails, Cleanup
<1>4. CASE UmountStep(p)
  BY <1>4 DEF UmountStep, FindOverlay, FindOverlayFails, UmountTop, UmountTopFails, UmountAtom, UmountAtomFails, CheckUsed, CheckUsedFails, DeactivateFails, Deactivate, Detach, LowersDone, RemoveMeta, RemoveMetaFails
<1>5. CASE Crash(p)
  BY <1>5 DEF Crash
<1>. QED BY <1>1, <1>2, <1>3, <1>4, <1>5 DEF Run

(* The directories an invocation is about.                                 *)
LEMMA TargetType ==
  ASSUME TypeOK, NEW p \in Procs
  PROVE  Target(p) \in Targets /\ Meta(p) \in MetaDirs
BY WorldAssumption DEF TypeOK, InvocationTypes, Target, Meta, MountCmd, UmountCmd

(* The image a mount is of.                                                *)
LEMMA ImageType ==
  ASSUME TypeOK, NEW p \in Procs, cmd[p] \in MountCmd
  PROVE  /\ Image(p) \in Images /\ cmd[p].allow \in BOOLEAN /\ cmd[p].over \in {"ro", "rw", "stray"}
         /\ Layers[Image(p)] \in Seq(Atoms) /\ Len(Layers[Image(p)]) \in Nat
BY WorldAssumption DEF TypeOK, InvocationTypes, Image, MountCmd

(* The layer an invocation is at.                                          *)
LEMMA AtomType ==
  ASSUME TypeOK, NEW p \in Procs, LocalsOK(p), pc[p] \in AtomSteps \/ AtNextAtom(p)
  PROVE  Atom(p) \in Atoms
<1>1. cmd[p] \in MountCmd /\ idx[p] \in 1 .. Len(Layers[Image(p)])
  BY ImageType DEF LocalsOK, LoopSteps, AtNextAtom, TypeOK, LocalTypes
<1>. QED BY <1>1, ImageType, ElementOfSeq DEF Atom


(* The retries are not exhausted at first, and a lock file is one.         *)
LEMMA Constants ==
  /\ MaxRetries \in Nat /\ 0 \in 0 .. MaxRetries - 1
  /\ \A p \in Procs : [dir |-> LockDirOf[p], gen |-> 0] \in LockFile
<1>1. MaxRetries \in Nat \ {0}
  BY WorldAssumption
<1>2. \A p \in Procs : LockDirOf[p] \in LockDirs \cup {NoDir}
  BY WorldAssumption
<1>. QED BY <1>1, <1>2 DEF LockFile

(* Returning, going on and failing keep the types of an invocation.        *)
LEMMA GotoTypes ==
  ASSUME InvocationTypes, NEW p \in Procs, NEW r \in Steps, Goto(p, r)
  PROVE  InvocationTypes'
BY DEF InvocationTypes, Goto

(* Returning keeps the types: the lock and the locals are reset.           *)
LEMMA ExitTypes ==
  ASSUME InvocationTypes, LocalTypes, NEW p \in Procs, NEW r \in Steps, Exit(p, r)
  PROVE  InvocationTypes' /\ LocalTypes'
<1>1. InvocationTypes'
  BY GotoTypes DEF Exit
<1>2. MaxRetries - 1 \in Nat
  BY WorldAssumption
<1>3. [dir |-> NoDir, gen |-> 0] \in LockFile
  BY DEF LockFile
<1>4. << >> \in Seq(Atoms \cup {Stray})
  BY EmptySeq
<1>. QED BY <1>1, <1>2, <1>3, <1>4 DEF Exit, LocalTypes

(* So does failing before the deferred cleanup.                            *)
LEMMA FailTypes ==
  ASSUME InvocationTypes, LocalTypes, NEW p \in Procs, FailMount(p)
  PROVE  InvocationTypes' /\ LocalTypes'
BY GotoTypes DEF FailMount, LocalTypes

(* So does leaving a group of variables alone.                             *)
LEMMA StaysTypes ==
  /\ LocalTypes /\ UNCHANGED locals => LocalTypes'
  /\ FileTypes /\ UNCHANGED files => FileTypes'
  /\ KernelTypes /\ UNCHANGED kernel => KernelTypes'
BY DEF LocalTypes, locals, FileTypes, files, KernelTypes, kernel

(* What remains of a stack when its top is taken off.                      *)
LEMMA FrontProperties ==
  ASSUME NEW S, NEW s \in Seq(S), s # << >>
  PROVE  /\ Front(s) \in Seq(S)
         /\ Len(Front(s)) = Len(s) - 1
         /\ \A i \in 1 .. Len(s) - 1 : Front(s)[i] = s[i]
<1>1. Len(s) \in Nat \ {0} /\ \A i \in 1 .. Len(s) - 1 : s[i] \in S
  BY EmptySeq, ElementOfSeq
<1>. DEFINE n == Len(s) - 1
<1>2. n \in Nat /\ n - 1 + 1 = n /\ \A i \in 1 .. n : 1 + i - 1 = i
  BY <1>1
<1>3. /\ SubSeq(s, 1, n) \in Seq(S)
      /\ Len(SubSeq(s, 1, n)) = IF 1 <= n THEN n - 1 + 1 ELSE 0
      /\ \A i \in 1 .. n - 1 + 1 : SubSeq(s, 1, n)[i] = s[1 + i - 1]
  <2>. HIDE DEF n
  <2>1. 1 \in Int /\ n \in Int /\ \A i \in 1 .. n : s[i] \in S
    BY <1>1, <1>2 DEF n
  <2>. QED BY <2>1, SubSeqProperties
<1>. QED BY <1>2, <1>3 DEF Front

(* One stack of mounts is replaced by another.                             *)
LEMMA MntUpdate ==
  ASSUME KernelTypes, NEW m \in MetaDirs, NEW a \in Atoms, NEW s \in Seq({"dm", "plain"}),
         mnt' = [mnt EXCEPT ![m][a] = s]
  PROVE  /\ mnt' \in [MetaDirs -> [Atoms -> Seq({"dm", "plain"})]]
         /\ \A n \in MetaDirs, b \in Atoms :
              mnt'[n][b] = IF n = m /\ b = a THEN s ELSE mnt[n][b]
BY DEF KernelTypes

(* One overlay is replaced by another.                                     *)
LEMMA OvlUpdate ==
  ASSUME KernelTypes, NEW t \in Targets, NEW s \in Seq(Overlay),
         ovl' = [ovl EXCEPT ![t] = s]
  PROVE  /\ ovl' \in [Targets -> Seq(Overlay)]
         /\ \A u \in Targets : ovl'[u] = IF u = t THEN s ELSE ovl[u]
BY DEF KernelTypes

(* The lower directories of an overlay are directories.                    *)
LEMMA LowerType ==
  ASSUME NEW o \in Overlay
  PROVE  OverlayLower(o) \in Seq(Atoms \cup {Stray})
<1>1. Layers[o.image] \in Seq(Atoms)
  BY WorldAssumption DEF Overlay
<1>2. Layers[o.image] \in Seq(Atoms \cup {Stray}) /\ <<Stray>> \in Seq(Atoms \cup {Stray})
  BY <1>1, SeqMonotonic
<1>. QED BY <1>2, ConcatProperties DEF OverlayLower

(* Every step of an invocation keeps the types of all variables.           *)
LEMMA Typing ==
  ASSUME TypeOK, NEW p \in Procs, LocalsOK(p), Run(p) \/ Crash(p)
  PROVE  TypeOK'
<1>. USE TargetType, GotoTypes, ExitTypes, FailTypes, StaysTypes DEF TypeOK
<1>1. CASE StartMount(p)
  BY <1>1 DEF StartMount
<1>2. CASE StartUmount(p)
  BY <1>2 DEF StartUmount
<1>3. CASE EnsureDir(p)
  BY <1>3 DEF EnsureDir, FileTypes, files
<1>4. CASE MakeLock(p)
  <2>. USE <1>4 DEF MakeLock
  <2>1. [dir |-> LockDirOf[p], gen |-> 0] \in LockFile
    BY Constants
  <2>2. MetaLock(Meta(p)) \in LockFile
    <3>1. gen[Meta(p)] \in Nat
      BY DEF FileTypes
    <3>. QED BY <3>1 DEF LockFile, MetaLock
  <2>3. LocalTypes'
    BY <2>1, <2>2 DEF LocalTypes
  <2>. QED BY <2>3
<1>5. CASE MakeLockFails(p)
  BY <1>5 DEF MakeLockFails
<1>6. CASE Flock(p)
  BY <1>6 DEF Flock
<1>7. CASE FlockFails(p)
  BY <1>7 DEF FlockFails
<1>8. CASE StatDevice(p)
  BY <1>8 DEF StatDevice
<1>9. CASE AttachLoop(p)
  <2>1. PICK l \in Loops : /\ loops' = [loops EXCEPT ![l] = Atom(p)]
                           /\ loop' = [loop EXCEPT ![p] = l]
    BY <1>9 DEF AttachLoop
  <2>2. /\ Goto(p, "activate") /\ pc[p] = "attachLoop"
        /\ UNCHANGED <<fd, idx, tries, lower, files, dm, corrupt, mnt, ovl>>
    BY <1>9 DEF AttachLoop
  <2>3. Atom(p) \in Atoms
    BY <1>9, AtomType DEF AttachLoop
  <2>4. LocalTypes'
    BY <2>1, <2>2 DEF LocalTypes
  <2>5. KernelTypes'
    BY <2>1, <2>2, <2>3 DEF KernelTypes
  <2>. QED BY <2>2, <2>4, <2>5
<1>10. CASE AttachLoopFails(p)
  BY <1>10 DEF AttachLoopFails
<1>11. CASE Activate(p)
  BY <1>11, AtomType DEF Activate, KernelTypes, kernel, Device, LocalsOK, VeritySteps, Hash
<1>12. CASE ActivateFails(p)
  BY <1>12 DEF ActivateFails, KernelTypes, kernel, Detached
<1>13. CASE ConfirmHash(p)
  BY <1>13 DEF ConfirmHash
<1>14. CASE ConfirmValidity(p)
  BY <1>14 DEF ConfirmValidity
<1>15. CASE MountDevice(p)
  <2>. DEFINE s == Append(mnt[Meta(p)][Atom(p)], "dm")
  <2>. USE <1>15 DEF MountDevice
  <2>1. s \in Seq({"dm", "plain"}) /\ mnt' = [mnt EXCEPT ![Meta(p)][Atom(p)] = s]
    BY AtomType, AppendProperties DEF KernelTypes
  <2>2. KernelTypes'
    BY <2>1, MntUpdate, AtomType DEF KernelTypes
  <2>3. LocalTypes'
    BY DEF LocalTypes
  <2>. QED BY <2>2, <2>3
<1>16. CASE MountDeviceFails(p)
  BY <1>16 DEF MountDeviceFails
<1>17. CASE UndoDevice(p)
  BY <1>17 DEF UndoDevice, KernelTypes, kernel, Detached
<1>45. CASE UndoLoop(p)
  BY <1>45 DEF UndoLoop, KernelTypes, kernel, Detached
<1>18. CASE OverlayLowerDirs(p)
  <2>. USE <1>18 DEF OverlayLowerDirs
  <2>1. FileTypes'
    BY DEF FileTypes
  <2>2. CASE idx' = [idx EXCEPT ![p] = 1] /\ Goto(p, "nextAtom") /\ UNCHANGED <<fd, loop, tries, lower>>
    <3>1. LocalTypes'
      BY <2>2 DEF LocalTypes
    <3>. QED BY <2>1, <2>2, <3>1
  <2>3. CASE Exit(p, "err")
    BY <2>1, <2>3
  <2>. QED BY <2>2, <2>3
<1>19. CASE RefuseAtom(p)
  BY <1>19 DEF RefuseAtom
<1>20. CASE ReuseMounted(p)
  <2>1. CASE Acceptable(p)
    <3>a. /\ idx' = [idx EXCEPT ![p] = idx[p] + 1]
          /\ UNCHANGED <<fd, loop, tries, lower>>
      BY <1>20, <2>1 DEF ReuseMounted
    <3>1. LocalTypes'
      BY <3>a DEF LocalTypes
    <3>2. InvocationTypes'
      BY <1>20, <2>1 DEF ReuseMounted, InvocationTypes
    <3>. QED BY <1>20, <3>1, <3>2 DEF ReuseMounted
  <2>2. CASE ~Acceptable(p)
    BY <1>20, <2>2 DEF ReuseMounted
  <2>. QED BY <2>1, <2>2
<1>21. CASE MakeMountpoint(p)
  BY <1>21 DEF MakeMountpoint, FileTypes, files
<1>22. CASE FsMount(p)
  BY <1>22 DEF FsMount
<1>23. CASE FsMountFails(p)
  BY <1>23 DEF FsMountFails
<1>24. CASE MountPlain(p)
  <2>. DEFINE s == Append(mnt[Meta(p)][Atom(p)], "plain")
  <2>. USE <1>24 DEF MountPlain
  <2>1. s \in Seq({"dm", "plain"}) /\ mnt' = [mnt EXCEPT ![Meta(p)][Atom(p)] = s]
    BY AtomType, AppendProperties DEF KernelTypes
  <2>2. KernelTypes'
    BY <2>1, MntUpdate, AtomType DEF KernelTypes
  <2>3. LocalTypes'
    BY DEF LocalTypes
  <2>. QED BY <2>2, <2>3
<1>46. CASE MountPlainGivesUp(p)
  <2>. USE <1>46 DEF MountPlainGivesUp
  <2>1. LocalTypes'
    BY DEF LocalTypes
  <2>. QED BY <2>1
<1>47. CASE MountPlainDies(p)
  <2>. DEFINE s == Append(mnt[Meta(p)][Atom(p)], "plain")
  <2>. USE <1>47 DEF MountPlainDies
  <2>1. s \in Seq({"dm", "plain"}) /\ mnt' = [mnt EXCEPT ![Meta(p)][Atom(p)] = s]
    BY AtomType, AppendProperties DEF KernelTypes
  <2>2. KernelTypes'
    BY <2>1, MntUpdate, AtomType DEF KernelTypes
  <2>. QED BY <2>2
<1>25. CASE MountPlainFails(p)
  BY <1>25 DEF MountPlainFails
<1>26. CASE AtomsDone(p)
  BY <1>26 DEF AtomsDone
<1>27. CASE WriteConfig(p)
  BY <1>27 DEF WriteConfig, FileTypes, files
<1>28. CASE WriteConfigFails(p)
  BY <1>28 DEF WriteConfigFails
<1>29. CASE MountOverlay(p)
  <2>. DEFINE o == [image |-> Image(p), allow |-> cmd[p].allow, over |-> cmd[p].over,
                    pins |-> {a \in ToSet(Layers[Image(p)]) : DevOnTop(Meta(p), a)},
                    gaps |-> {a \in ToSet(Layers[Image(p)]) :
                                MayGiveUp(p) /\ mnt[Meta(p)][a] = << >>}]
              s == Append(ovl[Target(p)], o)
  <2>. USE <1>29 DEF MountOverlay
  <2>1. cmd[p] \in MountCmd
    BY DEF LocalsOK
  <2>2. ToSet(Layers[Image(p)]) \subseteq Atoms
    BY <2>1, ImageType, ElementOfSeq, LenProperties DEF ToSet
  <2>3. o \in Overlay
    BY <2>1, <2>2, ImageType DEF Overlay
  <2>4. s \in Seq(Overlay)
    BY <2>3, AppendProperties DEF KernelTypes
  <2>5. KernelTypes'
    BY <2>4, OvlUpdate DEF KernelTypes
  <2>. QED BY <2>5
<1>30. CASE MountOverlayFails(p)
  BY <1>30 DEF MountOverlayFails
<1>31. CASE Cleanup(p)
  BY <1>31 DEF Cleanup, FileTypes, files, RemoveAll, Unlinked
<1>32. CASE FindOverlay(p)
  <2>1. Head(ovl[Target(p)]) \in Overlay
    BY <1>32, HeadTailProperties DEF FindOverlay, KernelTypes
  <2>2. OverlayLower(Head(ovl[Target(p)])) \in Seq(Atoms \cup {Stray})
    BY <2>1, LowerType
  <2>3. LocalTypes'
    BY <1>32, <2>2 DEF FindOverlay, LocalTypes
  <2>. QED BY <1>32, <2>3 DEF FindOverlay
<1>39. CASE FindOverlayFails(p)
  BY <1>39 DEF FindOverlayFails
<1>33. CASE UmountTop(p)
  <2>. USE <1>33 DEF UmountTop
  <2>1. Front(ovl[Target(p)]) \in Seq(Overlay)
    BY FrontProperties DEF KernelTypes
  <2>2. KernelTypes'
    BY <2>1, OvlUpdate DEF KernelTypes
  <2>3. LocalTypes'
    BY DEF LocalTypes
  <2>. QED BY <2>2, <2>3
<1>34. CASE UmountTopFails(p)
  BY <1>34 DEF UmountTopFails
<1>35. CASE UmountAtom(p)
  <2>. USE <1>35 DEF UmountAtom, MountedLower
  <2>1. Front(mnt[Meta(p)][Lower(p)]) \in Seq({"dm", "plain"})
    BY FrontProperties DEF KernelTypes
  <2>2. KernelTypes'
    BY <2>1, MntUpdate DEF KernelTypes
  <2>3. idx[p] \in Nat /\ idx[p] + 1 \in Nat
    BY DEF LocalTypes
  <2>6. /\ idx' = idx \/ idx' = [idx EXCEPT ![p] = idx[p] + 1]
        /\ UNCHANGED <<fd, loop, tries, lower>>
    OBVIOUS
  <2>4. LocalTypes'
    BY <2>3, <2>6 DEF LocalTypes
  <2>5. InvocationTypes'
    BY DEF InvocationTypes, Goto
  <2>. QED BY <2>2, <2>4, <2>5
<1>36. CASE UmountAtomFails(p)
  BY <1>36 DEF UmountAtomFails
<1>37. CASE CheckUsed(p)
  <2>. USE <1>37 DEF CheckUsed
  <2>1. Present(Lower(p)) => dm[Lower(p)].loop \in Loops
    BY DEF LocalsOK, LowerSteps, KernelTypes, Present, Device
  <2>a. /\ \/ idx' = [idx EXCEPT ![p] = idx[p] + 1] /\ loop' = loop
           \/ idx' = idx /\ loop' = [loop EXCEPT ![p] = dm[Lower(p)].loop] /\ Present(Lower(p))
        /\ UNCHANGED <<fd, tries, lower>>
    OBVIOUS
  <2>2. LocalTypes'
    <3>1. idx[p] \in Nat /\ idx[p] + 1 \in Nat
      BY DEF LocalTypes
    <3>2. idx' \in [Procs -> Nat]
      BY <2>a, <3>1 DEF LocalTypes
    <3>3. loop' \in [Procs -> Loops \cup {NoLoop}]
      BY <2>1, <2>a DEF LocalTypes
    <3>. QED BY <2>a, <3>2, <3>3 DEF LocalTypes
  <2>3. InvocationTypes'
    BY DEF InvocationTypes, Goto
  <2>. QED BY <2>2, <2>3
<1>38. CASE DeactivateFails(p)
  <2>1. CASE tries[p] + 1 < MaxRetries
    <3>1. tries[p] + 1 \in 0 .. MaxRetries - 1
      BY <2>1, Constants DEF LocalTypes
    <3>2. LocalTypes'
      BY <1>38, <2>1, <3>1 DEF DeactivateFails, LocalTypes
    <3>3. InvocationTypes'
      BY <1>38, <2>1 DEF DeactivateFails, InvocationTypes
    <3>. QED BY <1>38, <3>2, <3>3 DEF DeactivateFails
  <2>2. CASE ~(tries[p] + 1 < MaxRetries)
    BY <1>38, <2>2 DEF DeactivateFails
  <2>. QED BY <2>1, <2>2
<1>48. CASE CheckUsedFails(p)
  BY <1>48 DEF CheckUsedFails
<1>40. CASE Deactivate(p)
  <2>. USE <1>40 DEF Deactivate
  <2>1. KernelTypes'
    BY DEF KernelTypes
  <2>2. LocalTypes'
    BY Constants DEF LocalTypes
  <2>. QED BY <2>1, <2>2
<1>41. CASE Detach(p)
  <2>. USE <1>41 DEF Detach
  <2>1. KernelTypes'
    BY DEF KernelTypes, Detached
  <2>2. CASE loops' = loops /\ Exit(p, "err")
    BY <2>1, <2>2
  <2>3. CASE idx' = [idx EXCEPT ![p] = @ + 1] /\ loop' = [loop EXCEPT ![p] = NoLoop] /\ Goto(p, "nextLower")
             /\ UNCHANGED <<fd, tries, lower>>
    <3>1. LocalTypes'
      BY <2>3 DEF LocalTypes
    <3>. QED BY <2>1, <2>3, <3>1
  <2>. QED BY <2>2, <2>3
<1>42. CASE LowersDone(p)
  BY <1>42 DEF LowersDone
<1>43. CASE RemoveMeta(p)
  BY <1>43 DEF RemoveMeta, FileTypes, files, RemoveAll, Unlinked
<1>49. CASE RemoveMetaFails(p)
  BY <1>49 DEF RemoveMetaFails
<1>44. CASE Crash(p)
  BY <1>44 DEF Crash
<1>. QED
  BY <1>1, <1>2, <1>3, <1>4, <1>5, <1>6, <1>7, <1>8, <1>9, <1>10, <1>11,
     <1>12, <1>13, <1>14, <1>15, <1>16, <1>17, <1>18, <1>19, <1>20, <1>21,
     <1>22, <1>23, <1>24, <1>25, <1>26, <1>27, <1>28, <1>29, <1>30, <1>31,
     <1>32, <1>33, <1>34, <1>35, <1>36, <1>37, <1>38, <1>39, <1>40, <1>41,
     <1>42, <1>43, <1>44, <1>45, <1>46, <1>47, <1>48, <1>49 DEF Run, BeforeLockStep, VerityMountStep,
     MountStep, UmountStep

-----------------------------------------------------------------------------
(* An invocation is one of the two commands.                               *)
LEMMA OpType ==
  ASSUME TypeOK, NEW p \in Procs, cmd[p].op = "mount"
  PROVE  cmd[p] \in MountCmd
BY DEF TypeOK, InvocationTypes, MountCmd, UmountCmd

(* The local variables of the invocation that makes the step.              *)
LEMMA OwnLocals ==
  ASSUME TypeOK, NEW p \in Procs, LocalsOK(p), Run(p) \/ Crash(p)
  PROVE  LocalsOK(p)'
<1>a. /\ pc \in [Procs -> Steps] /\ cmd \in [Procs -> MountCmd \cup UmountCmd]
      /\ idx \in [Procs -> Nat] /\ loop \in [Procs -> Loops \cup {NoLoop}]
      /\ lower \in [Procs -> Seq(Atoms \cup {Stray})]
  BY DEF TypeOK, InvocationTypes, LocalTypes
<1>. USE <1>a DEF Exit, FailMount, Goto, locals, LocalsOK, LoopSteps, VeritySteps, LowerSteps, Releasing,
         Image, Atom, Hash, Lower
<1>1. CASE StartMount(p)
  <2>1. cmd[p] \in MountCmd
    BY <1>1, OpType DEF StartMount
  <2>. QED BY <1>1, <2>1 DEF StartMount
<1>2. CASE StartUmount(p)
  BY <1>2 DEF StartUmount
<1>3. CASE EnsureDir(p)
  BY <1>3 DEF EnsureDir
<1>4. CASE MakeLock(p)
  BY <1>4 DEF MakeLock
<1>5. CASE MakeLockFails(p)
  BY <1>5 DEF MakeLockFails
<1>6. CASE Flock(p)
  <2>1. cmd[p].op = "mount" => cmd[p] \in MountCmd
    BY OpType
  <2>2. cmd[p].op \in {"mount", "umount"}
    BY <1>a DEF MountCmd, UmountCmd
  <2>. QED BY <1>6, <2>1, <2>2 DEF Flock
<1>7. CASE FlockFails(p)
  BY <1>7 DEF FlockFails
<1>8. CASE StatDevice(p)
  BY <1>8 DEF StatDevice
<1>9. CASE AttachLoop(p)
  <2>1. loop'[p] \in Loops
    BY <1>9 DEF AttachLoop
  <2>2. pc[p] = "attachLoop" /\ pc'[p] = "activate" /\ UNCHANGED <<cmd, idx, lower>>
    BY <1>9 DEF AttachLoop
  <2>. QED BY <2>1, <2>2
<1>10. CASE AttachLoopFails(p)
  BY <1>10 DEF AttachLoopFails
<1>11. CASE Activate(p)
  BY <1>11 DEF Activate
<1>12. CASE ActivateFails(p)
  BY <1>12 DEF ActivateFails
<1>13. CASE ConfirmHash(p)
  BY <1>13 DEF ConfirmHash
<1>14. CASE ConfirmValidity(p)
  BY <1>14 DEF ConfirmValidity
<1>15. CASE MountDevice(p)
  <2>1. /\ pc[p] = "mountDevice" /\ pc'[p] = "nextAtom" /\ UNCHANGED <<cmd, lower>>
        /\ idx'[p] = idx[p] + 1
    BY <1>15 DEF MountDevice
  <2>. QED BY <2>1
<1>16. CASE MountDeviceFails(p)
  BY <1>16 DEF MountDeviceFails
<1>17. CASE UndoDevice(p)
  BY <1>17 DEF UndoDevice
<1>45. CASE UndoLoop(p)
  BY <1>45 DEF UndoLoop
<1>18. CASE OverlayLowerDirs(p)
  BY <1>18 DEF OverlayLowerDirs
<1>19. CASE RefuseAtom(p)
  BY <1>19 DEF RefuseAtom, AtNextAtom
<1>20. CASE ReuseMounted(p)
  BY <1>20 DEF ReuseMounted, AtNextAtom
<1>21. CASE MakeMountpoint(p)
  BY <1>21 DEF MakeMountpoint, AtNextAtom
<1>22. CASE FsMount(p)
  <2>1. ByVerity(p) => RootHash[Image(p)][Atom(p)] \in Hashes
    <3>1. Image(p) \in Images /\ Atom(p) \in Atoms
      BY <1>22, ImageType, AtomType DEF FsMount
    <3>2. RootHash[Image(p)][Atom(p)] \in Hashes \cup {NoHash}
      BY <3>1, WorldAssumption
    <3>. QED BY <3>2 DEF ByVerity
  <2>. QED BY <1>22, <2>1 DEF FsMount
<1>23. CASE FsMountFails(p)
  BY <1>23 DEF FsMountFails
<1>24. CASE MountPlain(p) \/ MountPlainGivesUp(p)
  <2>1. Len(Layers[Image(p)]) \in Nat
    BY <1>24, ImageType DEF MountPlain, MountPlainGivesUp
  <2>2. idx[p] + 1 \in 1 .. Len(Layers[Image(p)]) + 1
    <3>. HIDE <1>a DEF LocalsOK, Image, Exit, FailMount, Atom
    <3>1. idx[p] \in Nat
      BY <1>a
    <3>2. idx[p] <= Len(Layers[Image(p)])
      BY <1>24 DEF MountPlain, MountPlainGivesUp, LocalsOK
    <3>. QED BY <2>1, <3>1, <3>2
  <2>3. pc'[p] = "nextAtom" /\ idx'[p] = idx[p] + 1 /\ cmd' = cmd /\ cmd[p] \in MountCmd
    BY <1>24 DEF MountPlain, MountPlainGivesUp
  <2>. QED BY <2>2, <2>3
<1>47. CASE MountPlainDies(p)
  BY <1>47 DEF MountPlainDies
<1>25. CASE MountPlainFails(p)
  BY <1>25 DEF MountPlainFails
<1>26. CASE AtomsDone(p)
  BY <1>26 DEF AtomsDone
<1>27. CASE WriteConfig(p)
  BY <1>27 DEF WriteConfig
<1>28. CASE WriteConfigFails(p)
  BY <1>28 DEF WriteConfigFails
<1>29. CASE MountOverlay(p)
  BY <1>29 DEF MountOverlay
<1>30. CASE MountOverlayFails(p)
  BY <1>30 DEF MountOverlayFails
<1>31. CASE Cleanup(p)
  BY <1>31 DEF Cleanup
<1>32. CASE FindOverlay(p)
  BY <1>32 DEF FindOverlay
<1>39. CASE FindOverlayFails(p)
  BY <1>39 DEF FindOverlayFails
<1>33. CASE UmountTop(p)
  BY <1>33 DEF UmountTop
<1>34. CASE UmountTopFails(p)
  BY <1>34 DEF UmountTopFails
<1>35. CASE UmountAtom(p)
  BY <1>35 DEF UmountAtom, AtLower, MountedLower
<1>36. CASE UmountAtomFails(p)
  BY <1>36 DEF UmountAtomFails
<1>37. CASE CheckUsed(p)
  BY <1>37 DEF CheckUsed
<1>38. CASE DeactivateFails(p)
  BY <1>38 DEF DeactivateFails
<1>48. CASE CheckUsedFails(p)
  BY <1>48 DEF CheckUsedFails
<1>40. CASE Deactivate(p)
  BY <1>40 DEF Deactivate
<1>41. CASE Detach(p)
  BY <1>41 DEF Detach
<1>42. CASE LowersDone(p)
  BY <1>42 DEF LowersDone
<1>43. CASE RemoveMeta(p)
  BY <1>43 DEF RemoveMeta
<1>49. CASE RemoveMetaFails(p)
  BY <1>49 DEF RemoveMetaFails
<1>44. CASE Crash(p)
  BY <1>44 DEF Crash
<1>. QED
  BY <1>1, <1>2, <1>3, <1>4, <1>5, <1>6, <1>7, <1>8, <1>9, <1>10, <1>11,
     <1>12, <1>13, <1>14, <1>15, <1>16, <1>17, <1>18, <1>19, <1>20, <1>21,
     <1>22, <1>23, <1>24, <1>25, <1>26, <1>27, <1>28, <1>29, <1>30, <1>31,
     <1>32, <1>33, <1>34, <1>35, <1>36, <1>37, <1>38, <1>39, <1>40, <1>41,
     <1>42, <1>43, <1>44, <1>45, <1>47, <1>48, <1>49 DEF Run, BeforeLockStep, VerityMountStep,
     MountStep, UmountStep

(* The other invocations keep their local variables, and those that are    *)
(* not in the critical section have none that matter.                      *)
LocalsInv == TypeOK /\ \A p \in Procs : LocalsOK(p)

LEMMA LocalsStep ==
  ASSUME LocalsInv, NEW p \in Procs, Run(p) \/ Crash(p)
  PROVE  \A q \in Procs : LocalsOK(q)'
<1>. SUFFICES ASSUME NEW q \in Procs PROVE LocalsOK(q)'
  OBVIOUS
<1>1. CASE q = p
  BY <1>1, OwnLocals DEF LocalsInv
<1>2. CASE q # p
  <2>1. /\ cmd' = cmd /\ pc'[q] = pc[q] /\ idx'[q] = idx[q]
        /\ loop'[q] = loop[q] /\ lower'[q] = lower[q]
    BY <1>2, Frame DEF LocalsInv
  <2>2. LocalsOK(q)
    BY DEF LocalsInv
  <2>. QED BY <2>1, <2>2 DEF LocalsOK, Image, Atom, Hash, Lower
<1>. QED BY <1>1, <1>2

(* So no lock is needed for the types.                                     *)
LEMMA LocalsInductive ==
  ASSUME LocalsInv, [Next]_vars
  PROVE  LocalsInv'
<1>1. CASE \E p \in Procs : Run(p) \/ Crash(p)
  BY <1>1, Typing, LocalsStep DEF LocalsInv
<1>2. CASE (\E a \in Atoms : CorruptionFound(a)) \/ UNCHANGED vars
  <2>1. /\ UNCHANGED <<invocation, locals, files, dm, loops, mnt, ovl>>
        /\ corrupt' \subseteq Atoms
    BY <1>2 DEF CorruptionFound, vars, invocation, locals, files, LocalsInv, TypeOK, KernelTypes
  <2>2. TypeOK'
    BY <2>1 DEF LocalsInv, TypeOK, InvocationTypes, LocalTypes, FileTypes, KernelTypes,
                invocation, locals, files
  <2>3. \A p \in Procs : LocalsOK(p)'
    BY <2>1 DEF LocalsInv, LocalsOK, Image, Atom, Hash, Lower, invocation, locals
  <2>. QED BY <2>2, <2>3 DEF LocalsInv
<1>. QED BY <1>1, <1>2 DEF Next, Terminated

-----------------------------------------------------------------------------
(* Each step goes forward.                                                 *)

(* The stage of every step.                                                *)
LEMMA Stages ==
  /\ Stage("start") = 0 /\ Stage("ensureDir") = 1 /\ Stage("makeLock") = 2
  /\ Stage("flock") = 3 /\ Stage("overlayLowerDirs") = 4 /\ Stage("findOverlay") = 4
  /\ Stage("umountTop") = 5 /\ Stage("nextAtom") = 6 /\ Stage("nextLower") = 6
  /\ Stage("writeConfig") = 7 /\ Stage("removeMeta") = 7
  /\ Stage("mountOverlay") = 8 /\ Stage("cleanup") = 9
  /\ \A step \in AtomSteps \cup LowerSteps : Stage(step) = 6
  /\ \A step \in Final : Stage(step) = 10
BY DEF Stage, LowerSteps

(* The turn of every step with a layer.                                    *)
LEMMA Turns ==
  /\ Turn("nextAtom") = 0 /\ Turn("prepare") = 1 /\ Turn("statDevice") = 2
  /\ Turn("mountPlain") = 2 /\ Turn("attachLoop") = 3 /\ Turn("activate") = 4
  /\ Turn("confirmHash") = 4 /\ Turn("confirmValidity") = 5
  /\ Turn("mountDevice") = 6 /\ Turn("undoDevice") = 7 /\ Turn("undoLoop") = 8
  /\ Turn("nextLower") = 0 /\ Turn("checkUsed") = 2 /\ Turn("deactivate") = 3
  /\ Turn("detach") = 4
BY DEF Turn

(* Stages and turns are numbers.                                           *)
LEMMA StageTurnType ==
  ASSUME NEW step \in Steps
  PROVE  Stage(step) \in 0 .. 10 /\ Turn(step) \in 0 .. 8
BY DEF Stage, Turn, LowerSteps

(* The ways to come forward.                                               *)
LEMMA Forwards ==
  ASSUME NEW p \in Procs,
         \/ Stage(pc[p]) < Stage(pc'[p])
         \/ /\ Stage(pc[p]) = Stage(pc'[p])
            /\ \/ idx[p] < idx'[p]
               \/ /\ idx[p] = idx'[p]
                  /\ \/ Turn(pc[p]) < Turn(pc'[p])
                     \/ Turn(pc[p]) = Turn(pc'[p]) /\ tries[p] < tries'[p]
  PROVE  Before(Position(p), Position(p)')
<1>. DEFINE x == Position(p)
            y == Position(p)'
<1>1. /\ x[1] = Stage(pc[p]) /\ x[2] = idx[p] /\ x[3] = Turn(pc[p]) /\ x[4] = tries[p]
      /\ y[1] = Stage(pc'[p]) /\ y[2] = idx'[p] /\ y[3] = Turn(pc'[p]) /\ y[4] = tries'[p]
  BY DEF Position
<1>2. \E k \in 1 .. 4 : x[k] < y[k] /\ \A j \in 1 .. k - 1 : x[j] = y[j]
  <2>. HIDE DEF x, y
  <2>1. CASE x[1] < y[1]
    BY <2>1
  <2>2. CASE x[1] = y[1] /\ x[2] < y[2]
    <3>1. \A j \in 1 .. 2 - 1 : x[j] = y[j]
      BY <2>2
    <3>. QED BY <2>2, <3>1
  <2>3. CASE x[1] = y[1] /\ x[2] = y[2] /\ x[3] < y[3]
    <3>1. \A j \in 1 .. 3 - 1 : x[j] = y[j]
      BY <2>3
    <3>. QED BY <2>3, <3>1
  <2>4. CASE x[1] = y[1] /\ x[2] = y[2] /\ x[3] = y[3] /\ x[4] < y[4]
    <3>1. \A j \in 1 .. 4 - 1 : x[j] = y[j]
      BY <2>4
    <3>. QED BY <2>4, <3>1
  <2>. QED BY <1>1, <2>1, <2>2, <2>3, <2>4
<1>. QED BY <1>2 DEF Before

(* Forward is not back to the same position.                               *)
LEMMA BeforeIsStrict ==
  ASSUME NEW x \in Nat \X Nat \X Nat \X Nat
  PROVE  ~Before(x, x)
BY DEF Before

(* The position is one of the positions.                                   *)
LEMMA PositionBound ==
  ASSUME LocalsInv, NEW p \in Procs
  PROVE  Position(p) \in Positions(p)
<1>1. /\ pc[p] \in Steps /\ idx[p] \in Nat /\ tries[p] \in 0 .. MaxRetries - 1 /\ LocalsOK(p)
      /\ lower[p] \in Seq(Atoms \cup {Stray})
  BY DEF LocalsInv, TypeOK, InvocationTypes, LocalTypes
<1>2. CASE cmd[p].op = "mount"
  <2>1. cmd[p] \in MountCmd
    BY <1>2, OpType DEF LocalsInv
  <2>2. pc[p] \notin Releasing
    BY <1>1, <1>2 DEF LocalsOK, Releasing
  <2>3. idx[p] \in 0 .. Len(Layers[Image(p)]) + 1
    BY <1>1, <2>1, <2>2, ImageType DEF LocalsInv, LocalsOK
  <2>. QED BY <1>1, <1>2, <2>3, StageTurnType DEF Position, Positions
<1>3. CASE cmd[p].op # "mount"
  <2>1. pc[p] \notin MountSteps
    BY <1>1, <1>3 DEF LocalsOK, MountCmd
  <2>2. idx[p] \in 0 .. Len(lower[p]) + 1
    BY <1>1, <2>1 DEF LocalsOK, LoopSteps
  <2>. QED BY <1>1, <1>3, <2>2, StageTurnType DEF Position, Positions
<1>. QED BY <1>2, <1>3

PositionsBounded == \A p \in Procs : Position(p) \in Positions(p)

(* To return, to fail and to be killed are the last stages.                *)
LEMMA LeavingForward ==
  ASSUME NEW p \in Procs, pc \in [Procs -> Steps], pc[p] \notin Final,
         \/ \E r \in Final : Exit(p, r)
         \/ pc[p] # "cleanup" /\ FailMount(p)
  PROVE  Stage(pc[p]) < Stage(pc'[p])
BY Stages DEF Exit, FailMount, Goto, Stage, LowerSteps

(* What an invocation does before it has the lock.                         *)
LEMMA BeforeLockForward ==
  ASSUME TypeOK, NEW p \in Procs, BeforeLockStep(p)
  PROVE  Before(Position(p), Position(p)')
<1>0. pc \in [Procs -> Steps]
  BY DEF TypeOK, InvocationTypes
<1>1. CASE MakeLockFails(p) \/ FlockFails(p)
  BY <1>0, <1>1, LeavingForward, Forwards DEF MakeLockFails, FlockFails
<1>2. CASE StartMount(p) \/ StartUmount(p) \/ EnsureDir(p)
  BY <1>0, <1>2, Stages, Forwards DEF StartMount, StartUmount, EnsureDir, Exit, Goto
<1>3. CASE MakeLock(p) \/ Flock(p)
  BY <1>0, <1>3, Stages, Forwards DEF MakeLock, Flock, Goto
<1>. QED BY <1>1, <1>2, <1>3 DEF BeforeLockStep

(* What VerityHostMount does.                                              *)
LEMMA VerityForward ==
  ASSUME TypeOK, NEW p \in Procs, VerityMountStep(p)
  PROVE  Before(Position(p), Position(p)')
<1>0. pc \in [Procs -> Steps] /\ idx \in [Procs -> Nat]
  BY DEF TypeOK, InvocationTypes, LocalTypes
<1>. USE <1>0, Stages, Turns, LeavingForward, Forwards DEF Goto, locals
<1>1. CASE AttachLoopFails(p) \/ ActivateFails(p) \/ UndoLoop(p)
  BY <1>1 DEF AttachLoopFails, ActivateFails, UndoLoop
<1>9. CASE UndoDevice(p)
  BY <1>9 DEF UndoDevice
<1>2. CASE StatDevice(p)
  BY <1>2 DEF StatDevice
<1>3. CASE AttachLoop(p)
  BY <1>3 DEF AttachLoop
<1>4. CASE Activate(p)
  BY <1>4 DEF Activate
<1>5. CASE ConfirmHash(p)
  BY <1>5 DEF ConfirmHash
<1>6. CASE ConfirmValidity(p)
  BY <1>6 DEF ConfirmValidity
<1>7. CASE MountDevice(p)
  BY <1>7 DEF MountDevice
<1>8. CASE MountDeviceFails(p)
  BY <1>8 DEF MountDeviceFails
<1>. QED BY <1>1, <1>2, <1>3, <1>4, <1>5, <1>6, <1>7, <1>8, <1>9 DEF VerityMountStep

(* What Molecule.Mount does.                                               *)
LEMMA MountForward ==
  ASSUME TypeOK, NEW p \in Procs, MountStep(p)
  PROVE  Before(Position(p), Position(p)')
<1>0. pc \in [Procs -> Steps] /\ idx \in [Procs -> Nat]
  BY DEF TypeOK, InvocationTypes, LocalTypes
<1>. USE <1>0, Stages, Turns, LeavingForward, Forwards DEF Goto, locals
<1>1. CASE RefuseAtom(p) \/ FsMountFails(p) \/ MountPlainFails(p) \/ WriteConfigFails(p)
           \/ MountOverlayFails(p) \/ MountPlainDies(p)
  BY <1>1 DEF RefuseAtom, FsMountFails, MountPlainFails, MountPlainDies, WriteConfigFails, MountOverlayFails,
     AtNextAtom
<1>2. CASE MountOverlay(p) \/ Cleanup(p)
  BY <1>2 DEF MountOverlay, Cleanup
<1>3. CASE OverlayLowerDirs(p)
  BY <1>3 DEF OverlayLowerDirs
<1>4. CASE ReuseMounted(p)
  BY <1>4 DEF ReuseMounted, AtNextAtom
<1>5. CASE MakeMountpoint(p) \/ FsMount(p)
  BY <1>5 DEF MakeMountpoint, FsMount, AtNextAtom
<1>6. CASE MountPlain(p) \/ MountPlainGivesUp(p)
  BY <1>6 DEF MountPlain, MountPlainGivesUp
<1>7. CASE AtomsDone(p) \/ WriteConfig(p)
  BY <1>7 DEF AtomsDone, WriteConfig
<1>. QED BY <1>1, <1>2, <1>3, <1>4, <1>5, <1>6, <1>7 DEF MountStep

(* What UmountWithMetadir and VerityUnmount do.                            *)
LEMMA UmountForward ==
  ASSUME TypeOK, NEW p \in Procs, UmountStep(p)
  PROVE  Before(Position(p), Position(p)')
<1>0. /\ pc \in [Procs -> Steps] /\ idx \in [Procs -> Nat]
      /\ tries \in [Procs -> 0 .. MaxRetries - 1] /\ MaxRetries \in Nat
  BY Constants DEF TypeOK, InvocationTypes, LocalTypes
<1>. USE <1>0, Stages, Turns, LeavingForward, Forwards DEF Goto, locals
<1>1. CASE \/ FindOverlayFails(p) \/ UmountTopFails(p) \/ UmountAtomFails(p)
           \/ CheckUsedFails(p) \/ RemoveMeta(p) \/ RemoveMetaFails(p)
  BY <1>1 DEF FindOverlayFails, UmountTopFails, UmountAtomFails, CheckUsedFails,
     RemoveMeta, RemoveMetaFails, AtLower
<1>2. CASE FindOverlay(p)
  <2>1. pc[p] = "findOverlay" /\ pc'[p] = "umountTop"
    BY <1>2 DEF FindOverlay
  <2>2. Stage(pc[p]) < Stage(pc'[p])
    BY <2>1
  <2>. QED BY <2>2
<1>8. CASE UmountTop(p) \/ LowersDone(p)
  BY <1>8 DEF UmountTop, LowersDone
<1>3. CASE UmountAtom(p)
  BY <1>3 DEF UmountAtom, AtLower, LowerSteps
<1>4. CASE CheckUsed(p)
  BY <1>4 DEF CheckUsed, LowerSteps
<1>5. CASE DeactivateFails(p)
  BY <1>5 DEF DeactivateFails
<1>6. CASE Deactivate(p)
  BY <1>6 DEF Deactivate, LowerSteps
<1>7. CASE Detach(p)
  BY <1>7 DEF Detach, LowerSteps
<1>. QED BY <1>1, <1>2, <1>3, <1>4, <1>5, <1>6, <1>7, <1>8 DEF UmountStep

(* So each step of an invocation brings it forward.                        *)
LEMMA RunForward ==
  ASSUME TypeOK, NEW p \in Procs, Run(p) \/ Crash(p)
  PROVE  Before(Position(p), Position(p)')
<1>1. CASE Run(p)
  BY <1>1, BeforeLockForward, VerityForward, MountForward, UmountForward DEF Run
<1>2. CASE Crash(p)
  BY <1>2, LeavingForward, Forwards DEF Crash, TypeOK, InvocationTypes
<1>. QED BY <1>1, <1>2

(* An invocation whose position stays has not made a step.                 *)
LEMMA StaysPut ==
  ASSUME TypeOK, NEW p \in Procs, Position(p)' = Position(p)
  PROVE  ~Run(p)
<1>1. Position(p) \in Nat \X Nat \X Nat \X Nat
  <2>1. pc[p] \in Steps /\ idx[p] \in Nat /\ tries[p] \in Nat
    BY Constants DEF TypeOK, InvocationTypes, LocalTypes
  <2>. QED BY <2>1, StageTurnType DEF Position
<1>. QED BY <1>1, BeforeIsStrict, RunForward

-----------------------------------------------------------------------------
(* Mutual exclusion.                                                       *)
(* With a common lock directory, every holder holds the same file.         *)
LEMMA OwnLockFile ==
  ASSUME TypeOK, NEW p \in Procs, LockDirOf[p] # NoDir, Run(p) \/ Crash(p),
         pc[p] \in Critical \cup {"flock"} => fd[p] = [dir |-> LockDirOf[p], gen |-> 0]
  PROVE  /\ pc'[p] \in Critical \cup {"flock"} => fd'[p] = [dir |-> LockDirOf[p], gen |-> 0]
         /\ pc'[p] \in Critical => pc[p] \in Critical \/ Flock(p)
<1>0. pc \in [Procs -> Steps] /\ fd \in [Procs -> LockFile]
  BY DEF TypeOK, InvocationTypes, LocalTypes
<1>. USE <1>0 DEF Exit, FailMount, Goto, locals
<1>1. CASE BeforeLockStep(p)
  BY <1>1 DEF BeforeLockStep, StartMount, StartUmount, EnsureDir, MakeLock, MakeLockFails, Flock, FlockFails
<1>2. CASE VerityMountStep(p)
  BY <1>2 DEF VerityMountStep, StatDevice, AttachLoop, AttachLoopFails, Activate, ActivateFails, ConfirmHash, ConfirmValidity, MountDevice, MountDeviceFails, UndoDevice, UndoLoop
<1>3. CASE MountStep(p)
  BY <1>3 DEF MountStep, OverlayLowerDirs, RefuseAtom, ReuseMounted, MakeMountpoint, FsMount, FsMountFails, MountPlain, MountPlainGivesUp, MountPlainDies, MountPlainFails, AtomsDone, WriteConfig, WriteConfigFails, MountOverlay, MountOverlayFails, Cleanup, AtNextAtom
<1>4. CASE UmountStep(p)
  BY <1>4 DEF UmountStep, FindOverlay, FindOverlayFails, UmountTop, UmountTopFails, UmountAtom, UmountAtomFails, CheckUsed, CheckUsedFails, DeactivateFails, Deactivate, Detach, LowersDone, RemoveMeta, RemoveMetaFails, AtLower
<1>5. CASE Crash(p)
  BY <1>5 DEF Crash
<1>. QED BY <1>1, <1>2, <1>3, <1>4, <1>5 DEF Run

(* A step of an invocation keeps the mutual exclusion.                     *)
LEMMA ExclusionStep ==
  ASSUME IndInv, CommonLock, NEW p \in Procs, Run(p) \/ Crash(p)
  PROVE  Exclusion'
<1>1. \A q \in Procs : LockDirOf[q] # NoDir /\ LockDirOf[q] = LockDirOf[p]
  BY NoneAssumption DEF CommonLock
<1>2. /\ pc'[p] \in Critical \cup {"flock"} => fd'[p] = [dir |-> LockDirOf[p], gen |-> 0]
      /\ pc'[p] \in Critical => pc[p] \in Critical \/ Flock(p)
  BY <1>1, OwnLockFile DEF IndInv, Exclusion
<1>3. \A q \in Procs : q # p => pc'[q] = pc[q] /\ fd'[q] = fd[q]
  BY Frame DEF IndInv
<1>4. ASSUME NEW q \in Procs, q # p, pc'[p] \in Critical, pc'[q] \in Critical
      PROVE  FALSE
  <2>1. pc[q] \in Critical
    BY <1>3, <1>4
  <2>2. CASE pc[p] \in Critical
    BY <1>4, <2>1, <2>2 DEF IndInv, Exclusion
  <2>3. CASE Flock(p)
    <3>1. pc[p] = "flock" /\ fd[p] # fd[q]
      BY <1>4, <2>1, <2>3 DEF Flock
    <3>2. fd[p] = [dir |-> LockDirOf[p], gen |-> 0] /\ fd[q] = [dir |-> LockDirOf[q], gen |-> 0]
      BY <2>1, <3>1 DEF IndInv, Exclusion
    <3>. QED BY <1>1, <3>1, <3>2
  <2>. QED BY <1>2, <1>4, <2>2, <2>3
<1>. QED BY <1>2, <1>3, <1>4 DEF IndInv, Exclusion

-----------------------------------------------------------------------------
(* Mounts and overlays.                                                    *)

(* The steps that touch the devices, the mounts or the overlays.           *)
Touches(p) ==
  \/ Activate(p) \/ MountDevice(p) \/ UndoDevice(p) \/ MountPlain(p) \/ MountPlainDies(p)
  \/ MountOverlay(p) \/ UmountTop(p) \/ UmountAtom(p) \/ Deactivate(p)

(* The steps that touch devices and mounts are those listed in Touches.    *)
LEMMA Footprint ==
  ASSUME NEW p \in Procs, Run(p) \/ Crash(p)
  PROVE  UNCHANGED <<dm, mnt, ovl>> \/ Touches(p)
<1>. USE DEF kernel, Touches
<1>1. CASE BeforeLockStep(p)
  BY <1>1 DEF BeforeLockStep, StartMount, StartUmount, EnsureDir, MakeLock, MakeLockFails, Flock, FlockFails
<1>2. CASE VerityMountStep(p)
  BY <1>2 DEF VerityMountStep, StatDevice, AttachLoop, AttachLoopFails, ActivateFails, ConfirmHash, ConfirmValidity, MountDeviceFails, UndoLoop
<1>3. CASE MountStep(p)
  BY <1>3 DEF MountStep, OverlayLowerDirs, RefuseAtom, ReuseMounted, MakeMountpoint, FsMount, FsMountFails, MountPlainGivesUp, MountPlainFails, AtomsDone, WriteConfig, WriteConfigFails, MountOverlayFails, Cleanup
<1>4. CASE UmountStep(p)
  BY <1>4 DEF UmountStep, FindOverlay, FindOverlayFails, UmountTopFails, UmountAtomFails, CheckUsed, CheckUsedFails, DeactivateFails, Detach, LowersDone, RemoveMeta, RemoveMetaFails
<1>5. CASE Crash(p)
  BY <1>5 DEF Crash
<1>. QED BY <1>1, <1>2, <1>3, <1>4, <1>5 DEF Run

(* The stacks of one mount that the steps make and take apart.             *)
LEMMA Stacks ==
  /\ Append(<< >>, "dm") = <<"dm">> /\ Append(<< >>, "plain") = <<"plain">>
  /\ Front(<<"dm">>) = << >> /\ Front(<<"plain">>) = << >>
  /\ Last(<<"dm">>) = "dm" /\ Last(<<"plain">>) = "plain"
  /\ Head(<<"dm">>) = "dm" /\ Head(<<"plain">>) = "plain"
  /\ ToSet(<<"dm">>) = {"dm"}
  /\ <<"dm">> # << >> /\ <<"plain">> # << >> /\ <<"dm">> # <<"plain">>
<1>1. SubSeq(<<"dm">>, 1, 0) = << >> /\ SubSeq(<<"plain">>, 1, 0) = << >>
  BY SubSeqEmpty
<1>2. Len(<<"dm">>) = 1 /\ Len(<<"plain">>) = 1
  OBVIOUS
<1>3. Front(<<"dm">>) = << >> /\ Front(<<"plain">>) = << >>
  BY <1>1, <1>2 DEF Front
<1>4. ToSet(<<"dm">>) = {"dm"}
  BY DEF ToSet
<1>. QED BY <1>3, <1>4 DEF Last

(* A device that can be removed is neither mounted nor in an overlay.      *)
LEMMA NotBusy ==
  ASSUME NEW a, ~DevBusy(a)
  PROVE  /\ \A m \in MetaDirs : mnt[m][a] # <<"dm">>
         /\ \A t \in Targets : \A k \in DOMAIN ovl[t] : a \notin ovl[t][k].pins
BY Stacks DEF DevBusy

(* A step that sets up a device sets up one that was not there, and one    *)
(* that takes a device down takes one that is not in use.                  *)
LEMMA DeviceStep ==
  ASSUME TypeOK, NEW p \in Procs, LocalsOK(p), Touches(p), NEW a \in Atoms, Present(a)
  PROVE  dm'[a] = dm[a] \/ ~DevBusy(a)
<1>0. dm \in [Atoms -> Device \cup {NoDevice}]
  BY DEF TypeOK, KernelTypes
<1>. USE <1>0
<1>1. CASE Activate(p)
  BY <1>1 DEF Activate, Present
<1>2. CASE UndoDevice(p)
  BY <1>2 DEF UndoDevice
<1>3. CASE Deactivate(p)
  BY <1>3 DEF Deactivate
<1>4. CASE \/ MountDevice(p) \/ MountPlain(p) \/ MountPlainDies(p)
           \/ MountOverlay(p) \/ UmountTop(p) \/ UmountAtom(p)
  BY <1>4 DEF MountDevice, MountPlain, MountPlainDies, MountOverlay, UmountTop, UmountAtom
<1>. QED BY <1>1, <1>2, <1>3, <1>4 DEF Touches

(* The mounts of a molecule stay mounts of detected devices.               *)
LEMMA MountsStep ==
  ASSUME IndInv, NEW p \in Procs, Run(p) \/ Crash(p)
  PROVE  MountsOK'
<1>0. TypeOK /\ KernelTypes /\ LocalsOK(p) /\ MountsOK /\ MountingOK(p)
  BY DEF IndInv, TypeOK
<1>1. CASE UNCHANGED <<dm, mnt>>
  BY <1>0, <1>1 DEF MountsOK, Present
<1>2. CASE UNCHANGED mnt /\ Touches(p)
  <2>. SUFFICES ASSUME NEW m \in MetaDirs, NEW a \in Atoms, mnt[m][a] = <<"dm">>
                PROVE  Present(a)'
    BY <1>0, <1>2 DEF MountsOK
  <2>1. Present(a) /\ DevBusy(a)
    BY <1>0, NotBusy, Stacks DEF MountsOK
  <2>. QED BY <1>0, <1>2, <2>1, DeviceStep DEF Present
<1>3. CASE MountDevice(p)
  <2>1. Atom(p) \in Atoms /\ Meta(p) \in MetaDirs /\ Present(Atom(p))
    BY <1>0, <1>3, AtomType, TargetType DEF MountDevice, MountableOn
  <2>2. mnt[Meta(p)][Atom(p)] = << >>
    BY <1>0, <1>3 DEF MountDevice, MountingOK
  <2>3. mnt' = [mnt EXCEPT ![Meta(p)][Atom(p)] = <<"dm">>] /\ dm' = dm
    BY <1>3, <2>2, Stacks, <1>0, <2>1 DEF MountDevice, KernelTypes
  <2>4. <<"dm">> \in Seq({"dm", "plain"})
    OBVIOUS
  <2>5. \A n \in MetaDirs, b \in Atoms :
          mnt'[n][b] = IF n = Meta(p) /\ b = Atom(p) THEN <<"dm">> ELSE mnt[n][b]
    BY <1>0, <2>1, <2>3, <2>4, MntUpdate
  <2>. QED BY <1>0, <2>1, <2>3, <2>5 DEF MountsOK, Present
<1>4. CASE MountPlain(p) \/ MountPlainDies(p)
  <2>1. Atom(p) \in Atoms /\ Meta(p) \in MetaDirs
    BY <1>0, <1>4, AtomType, TargetType DEF MountPlain, MountPlainDies
  <2>2. mnt[Meta(p)][Atom(p)] = << >>
    BY <1>0, <1>4 DEF MountPlain, MountPlainDies, MountingOK
  <2>3. mnt' = [mnt EXCEPT ![Meta(p)][Atom(p)] = <<"plain">>] /\ dm' = dm
    BY <1>4, <2>2, Stacks, <1>0, <2>1 DEF MountPlain, MountPlainDies, KernelTypes
  <2>4. <<"plain">> \in Seq({"dm", "plain"})
    OBVIOUS
  <2>5. \A n \in MetaDirs, b \in Atoms :
          mnt'[n][b] = IF n = Meta(p) /\ b = Atom(p) THEN <<"plain">> ELSE mnt[n][b]
    BY <1>0, <2>1, <2>3, <2>4, MntUpdate
  <2>. QED BY <1>0, <2>1, <2>3, <2>5 DEF MountsOK, Present
<1>5. CASE UmountAtom(p)
  <2>1. Lower(p) \in Atoms /\ Meta(p) \in MetaDirs /\ mnt[Meta(p)][Lower(p)] # << >>
    BY <1>0, <1>5, TargetType DEF UmountAtom, MountedLower
  <2>2. Front(mnt[Meta(p)][Lower(p)]) = << >>
    BY <1>0, <2>1, Stacks DEF MountsOK
  <2>3. mnt' = [mnt EXCEPT ![Meta(p)][Lower(p)] = << >>] /\ dm' = dm
    BY <1>5, <2>2, <1>0, <2>1 DEF UmountAtom, KernelTypes
  <2>4. << >> \in Seq({"dm", "plain"})
    OBVIOUS
  <2>5. \A n \in MetaDirs, b \in Atoms :
          mnt'[n][b] = IF n = Meta(p) /\ b = Lower(p) THEN << >> ELSE mnt[n][b]
    BY <1>0, <2>1, <2>3, <2>4, MntUpdate
  <2>. QED BY <1>0, <2>1, <2>3, <2>5 DEF MountsOK, Present
<1>6. CASE Activate(p) \/ UndoDevice(p) \/ MountOverlay(p) \/ UmountTop(p) \/ Deactivate(p)
  <2>1. UNCHANGED mnt /\ Touches(p)
    BY <1>6 DEF Touches, Activate, UndoDevice, MountOverlay, UmountTop, Deactivate
  <2>. QED BY <1>2, <2>1
<1>. QED BY <1>1, <1>3, <1>4, <1>5, <1>6, Footprint DEF Touches

(* An overlay whose devices are not taken away stays as good as it is.     *)
LEMMA OverlayStays ==
  ASSUME TypeOK, NEW p \in Procs, LocalsOK(p), Touches(p),
         NEW o \in Overlay, OverlayOK(o), \A a \in o.pins : DevBusy(a)
  PROVE  OverlayOK(o)'
<1>1. \A a \in o.pins : a \in Atoms /\ Present(a) /\ DevBusy(a)
  BY DEF OverlayOK, Overlay
<1>2. \A a \in o.pins : dm'[a] = dm[a]
  BY <1>1, DeviceStep
<1>. QED BY <1>1, <1>2 DEF OverlayOK, Present, Verified

(* The overlay that Mount is about to put on the target.                   *)
NewOverlay(p) ==
  [image |-> Image(p), allow |-> cmd[p].allow, over |-> cmd[p].over,
   pins |-> {a \in ToSet(Layers[Image(p)]) : DevOnTop(Meta(p), a)},
   gaps |-> {a \in ToSet(Layers[Image(p)]) : MayGiveUp(p) /\ mnt[Meta(p)][a] = << >>}]

(* The overlay that a mount makes has all of its layers.                   *)
LEMMA NewOverlayOK ==
  ASSUME TypeOK, NEW p \in Procs, LocalsOK(p), MountingOK(p), MountsOK, MountOverlay(p)
  PROVE  NewOverlay(p) \in Overlay /\ OverlayOK(NewOverlay(p))
<1>. DEFINE o == NewOverlay(p)
            L == Layers[Image(p)]
<1>1. /\ pc[p] = "mountOverlay" /\ cmd[p] \in MountCmd /\ idx[p] = Len(L) + 1
      /\ Meta(p) \in MetaDirs
  BY TargetType DEF MountOverlay, LocalsOK
<1>2. /\ L \in Seq(Atoms) /\ Len(L) \in Nat /\ Image(p) \in Images
      /\ cmd[p].allow \in BOOLEAN /\ cmd[p].over \in {"ro", "rw", "stray"}
  BY <1>1, ImageType
<1>3. \A a \in ToSet(L) : a \in Atoms /\ \E j \in 1 .. Len(L) : L[j] = a
  BY <1>2, ElementOfSeq, LenProperties DEF ToSet
<1>4. o \in Overlay
  BY <1>2, <1>3 DEF Overlay, NewOverlay
<1>5. ASSUME NEW a \in o.pins PROVE Present(a)
  BY <1>1, <1>3, <1>5, Stacks DEF NewOverlay, DevOnTop, MountsOK
<1>6. ASSUME ~o.allow, NEW a \in ToSet(L) PROVE a \in o.pins /\ Verified(Image(p), a)
  <2>1. PICK j \in 1 .. Len(L) : L[j] = a
    BY <1>3
  <2>2. ~cmd[p].allow
    BY <1>6 DEF NewOverlay
  <2>3. j \in 1 .. idx[p] - 1
    BY <1>1, <1>2
  <2>4. mnt[Meta(p)][a] = <<"dm">> /\ Verified(Image(p), a)
    BY <1>1, <2>1, <2>2, <2>3 DEF MountingOK, LoopSteps
  <2>. QED BY <2>4, Stacks DEF NewOverlay, DevOnTop
<1>. QED BY <1>4, <1>5, <1>6 DEF OverlayOK, NewOverlay

(* No device is taken from under an overlay, and a new one has its layers. *)
LEMMA OverlaysStep ==
  ASSUME IndInv, NEW p \in Procs, Run(p) \/ Crash(p)
  PROVE  OverlaysOK'
<1>0. /\ TypeOK /\ KernelTypes /\ LocalsOK(p) /\ OverlaysOK /\ MountsOK /\ MountingOK(p)
      /\ ovl \in [Targets -> Seq(Overlay)] /\ Target(p) \in Targets
  BY TargetType DEF IndInv, TypeOK, KernelTypes
<1>1. CASE UNCHANGED <<dm, mnt, ovl>>
  BY <1>0, <1>1 DEF OverlaysOK, OverlayOK, Present, Verified
<1>2. ASSUME Touches(p), NEW t \in Targets, NEW k \in DOMAIN ovl[t], NEW o, o = ovl[t][k]
      PROVE  OverlayOK(o)'
  <2>1. o \in Overlay /\ OverlayOK(o)
    BY <1>0, <1>2, ElementOfSeq, LenProperties DEF OverlaysOK
  <2>2. \A a \in o.pins : DevBusy(a)
    BY <1>2 DEF DevBusy
  <2>. QED BY <1>0, <1>2, <2>1, <2>2, OverlayStays
<1>3. CASE UNCHANGED ovl /\ Touches(p)
  BY <1>2, <1>3 DEF OverlaysOK
<1>4. CASE MountOverlay(p)
  <2>. DEFINE s == Append(ovl[Target(p)], NewOverlay(p))
  <2>1. NewOverlay(p) \in Overlay /\ OverlayOK(NewOverlay(p)) /\ UNCHANGED <<dm, mnt>>
    BY <1>0, <1>4, NewOverlayOK DEF MountOverlay
  <2>2. /\ s \in Seq(Overlay) /\ Len(s) = Len(ovl[Target(p)]) + 1
        /\ \A k \in 1 .. Len(ovl[Target(p)]) : s[k] = ovl[Target(p)][k]
        /\ s[Len(s)] = NewOverlay(p)
    BY <1>0, <2>1, AppendProperties
  <2>3. \A u \in Targets : ovl'[u] = IF u = Target(p) THEN s ELSE ovl[u]
    BY <1>0, <1>4, <2>2, OvlUpdate DEF MountOverlay, NewOverlay
  <2>4. ASSUME NEW u \in Targets, NEW k \in DOMAIN ovl'[u]
        PROVE  OverlayOK(ovl'[u][k])
    <3>1. CASE u = Target(p) /\ k = Len(s)
      BY <2>1, <2>2, <2>3, <3>1
    <3>2. CASE ~(u = Target(p) /\ k = Len(s))
      <4>1. k \in DOMAIN ovl[u] /\ ovl'[u][k] = ovl[u][k]
        <5>1. CASE u # Target(p)
          BY <2>3, <2>4, <5>1
        <5>2. CASE u = Target(p)
          <6>1. Len(ovl[u]) \in Nat /\ DOMAIN ovl[u] = 1 .. Len(ovl[u])
            BY <1>0, LenProperties
          <6>2. ovl'[u] = s /\ k \in 1 .. Len(s) /\ k # Len(s)
            BY <2>2, <2>3, <2>4, <3>2, <5>2, LenProperties
          <6>. QED BY <2>2, <5>2, <6>1, <6>2
        <5>. QED BY <5>1, <5>2
      <4>. QED BY <1>0, <4>1 DEF OverlaysOK
    <3>. QED BY <3>1, <3>2
  <2>. QED BY <2>1, <2>4 DEF OverlaysOK, OverlayOK, Present, Verified
<1>5. CASE UmountTop(p)
  <2>1. /\ UNCHANGED <<dm, mnt>> /\ ovl[Target(p)] # << >>
        /\ ovl' = [ovl EXCEPT ![Target(p)] = Front(ovl[Target(p)])]
    BY <1>0, <1>5 DEF UmountTop
  <2>2. /\ Front(ovl[Target(p)]) \in Seq(Overlay)
        /\ Len(Front(ovl[Target(p)])) = Len(ovl[Target(p)]) - 1
        /\ \A k \in 1 .. Len(ovl[Target(p)]) - 1 : Front(ovl[Target(p)])[k] = ovl[Target(p)][k]
    BY <1>0, <2>1, FrontProperties
  <2>3. \A u \in Targets : ovl'[u] = IF u = Target(p) THEN Front(ovl[Target(p)]) ELSE ovl[u]
    BY <1>0, <2>1, <2>2, OvlUpdate
  <2>4. ASSUME NEW u \in Targets, NEW k \in DOMAIN ovl'[u]
        PROVE  k \in DOMAIN ovl[u] /\ ovl'[u][k] = ovl[u][k]
    BY <1>0, <2>2, <2>3, <2>4, LenProperties
  <2>. QED BY <1>0, <2>1, <2>4 DEF OverlaysOK, OverlayOK, Present, Verified
<1>6. CASE \/ Activate(p) \/ MountDevice(p) \/ UndoDevice(p) \/ MountPlain(p)
           \/ MountPlainDies(p) \/ UmountAtom(p) \/ Deactivate(p)
  <2>1. UNCHANGED ovl /\ Touches(p)
    BY <1>6 DEF Touches, Activate, MountDevice, UndoDevice, MountPlain, MountPlainDies, UmountAtom, Deactivate
  <2>. QED BY <1>3, <2>1
<1>. QED BY <1>1, <1>4, <1>5, <1>6, Footprint DEF Touches

-----------------------------------------------------------------------------
(* What a Mount has done so far.                                           *)

(* Only the holder of the lock touches devices, mounts and overlays.       *)
LEMMA OutsideTouchesNothing ==
  ASSUME NEW p \in Procs, Run(p) \/ Crash(p), pc[p] \notin Critical
  PROVE  UNCHANGED <<dm, mnt, ovl>>
BY Footprint DEF Touches, Activate, MountDevice, UndoDevice, MountPlain, MountPlainDies,
   MountOverlay, UmountTop, UmountAtom, Deactivate, AtLower

(* A mount is not disturbed by a step of another invocation.               *)
LEMMA OthersMounting ==
  ASSUME IndInv, NEW p \in Procs, Run(p) \/ Crash(p), NEW q \in Procs, q # p
  PROVE  MountingOK(q)'
<1>1. /\ cmd' = cmd /\ pc'[q] = pc[q] /\ idx'[q] = idx[q]
  BY Frame DEF IndInv
<1>2. CASE pc[q] \notin Critical
  BY <1>1, <1>2 DEF MountingOK, LoopSteps
<1>3. CASE pc[q] \in Critical
  <2>1. pc[p] \notin Critical
    BY <1>3 DEF IndInv, Exclusion
  <2>2. UNCHANGED <<dm, mnt>>
    BY <2>1, OutsideTouchesNothing
  <2>3. MountingOK(q)
    BY DEF IndInv
  <2>. QED BY <1>1, <2>2, <2>3 DEF MountingOK, Meta, Target, Image, Atom, Hash, Verified, Present, ByVerity
<1>. QED BY <1>2, <1>3

(* The steps that stay in the loop of mountUnderlyingAtoms, or come to it. *)
Advances(p) ==
  \/ OverlayLowerDirs(p) \/ ReuseMounted(p) \/ MakeMountpoint(p) \/ FsMount(p)
  \/ StatDevice(p) \/ AttachLoop(p) \/ Activate(p) \/ ConfirmHash(p) \/ ConfirmValidity(p)
  \/ MountDevice(p) \/ MountDeviceFails(p) \/ UndoDevice(p) \/ MountPlain(p)
  \/ MountPlainGivesUp(p) \/ AtomsDone(p) \/ WriteConfig(p)

(* The steps that leave the loop over the layers.                          *)
LEMMA LeavesLoop ==
  ASSUME TypeOK, NEW p \in Procs, Run(p) \/ Crash(p), ~Advances(p)
  PROVE  pc'[p] \notin LoopSteps
<1>0. pc \in [Procs -> Steps]
  BY DEF TypeOK, InvocationTypes
<1>. USE <1>0 DEF Exit, FailMount, Goto, LoopSteps, Advances
<1>1. CASE BeforeLockStep(p)
  BY <1>1 DEF BeforeLockStep, StartMount, StartUmount, EnsureDir, MakeLock, MakeLockFails, Flock, FlockFails
<1>2. CASE VerityMountStep(p)
  BY <1>2 DEF VerityMountStep, AttachLoopFails, ActivateFails, UndoLoop
<1>3. CASE MountStep(p)
  BY <1>3 DEF MountStep, RefuseAtom, FsMountFails, MountPlainDies, MountPlainFails, WriteConfigFails, MountOverlay, MountOverlayFails, Cleanup
<1>4. CASE UmountStep(p)
  BY <1>4 DEF UmountStep, FindOverlay, FindOverlayFails, UmountTop, UmountTopFails, UmountAtom, UmountAtomFails, CheckUsed, CheckUsedFails, DeactivateFails, Deactivate, Detach, LowersDone, RemoveMeta, RemoveMetaFails, AtLower
<1>5. CASE Crash(p)
  BY <1>5 DEF Crash
<1>. QED BY <1>1, <1>2, <1>3, <1>4, <1>5 DEF Run

(* The step of a mount keeps what it has found or set up so far.           *)
LEMMA OwnMounting ==
  ASSUME TypeOK, NEW p \in Procs, LocalsOK(p), MountsOK, MountingOK(p), Run(p) \/ Crash(p)
  PROVE  MountingOK(p)'
<1>0. /\ pc \in [Procs -> Steps] /\ idx \in [Procs -> Nat]
      /\ dm \in [Atoms -> Device \cup {NoDevice}] /\ KernelTypes
  BY DEF TypeOK, InvocationTypes, LocalTypes, KernelTypes
<1>1. CASE ~Advances(p)
  BY <1>1, LeavesLoop DEF MountingOK, LoopSteps
<1>. USE <1>0 DEF Goto, FailMount, locals, kernel
<1>. DEFINE L == Layers[Image(p)]
<1>a. ASSUME UNCHANGED <<cmd, idx, dm, mnt>>, pc[p] \in LoopSteps
      PROVE  /\ ~cmd[p].allow =>
                  \A j \in 1 .. idx'[p] - 1 :
                    mnt'[Meta(p)][L[j]] = <<"dm">> /\ Verified(Image(p), L[j])'
             /\ UNCHANGED <<Meta(p), Image(p), Atom(p), ByVerity(p)>>
             /\ Verified(Image(p), Atom(p)) => Verified(Image(p), Atom(p))'
             /\ Present(Atom(p)) => Present(Atom(p))'
  BY <1>a DEF MountingOK, Meta, Target, Image, Atom, Hash, ByVerity, Verified, Present
<1>2. CASE OverlayLowerDirs(p)
  BY <1>2 DEF OverlayLowerDirs, MountingOK, LoopSteps, Exit
<1>3. CASE ReuseMounted(p)
  <2>1. pc[p] = "nextAtom" /\ UNCHANGED <<cmd, dm, mnt>> /\ AtNextAtom(p) /\ ~Refused(p)
    BY <1>3 DEF ReuseMounted, AtNextAtom
  <2>2. CASE ~Acceptable(p)
    BY <1>3, <2>2 DEF ReuseMounted, MountingOK, LoopSteps
  <2>3. CASE Acceptable(p)
    <3>1. pc' = pc /\ idx'[p] = idx[p] + 1
      BY <1>3, <2>3 DEF ReuseMounted
    <3>2. Meta(p) \in MetaDirs /\ Atom(p) \in Atoms
      BY <2>1, TargetType, AtomType
    <3>3. ~cmd[p].allow => mnt[Meta(p)][Atom(p)] = <<"dm">> /\ Verified(Image(p), Atom(p))
      BY <1>3, <2>1, <2>3, <3>2, Stacks DEF ReuseMounted, Refused, Acceptable, MountsOK, Verified, Hash
    <3>4. ~cmd[p].allow => \A j \in 1 .. idx[p] - 1 :
            mnt[Meta(p)][L[j]] = <<"dm">> /\ Verified(Image(p), L[j])
      BY <2>1 DEF MountingOK, LoopSteps
    <3>5. ~cmd[p].allow => \A j \in 1 .. idx'[p] - 1 :
            mnt[Meta(p)][L[j]] = <<"dm">> /\ Verified(Image(p), L[j])
      <4>1. \A j \in 1 .. idx'[p] - 1 : j \in 1 .. idx[p] - 1 \/ j = idx[p]
        BY <3>1
      <4>. QED BY <3>3, <3>4, <4>1 DEF Atom
    <3>. QED BY <2>1, <3>1, <3>5 DEF MountingOK, Meta, Target, Image, Verified, Present
  <2>. QED BY <2>2, <2>3
<1>4. CASE MakeMountpoint(p)
  BY <1>4, <1>a DEF MakeMountpoint, AtNextAtom, LoopSteps, MountingOK, Refused, ByVerity
<1>5. CASE FsMount(p)
  BY <1>5, <1>a DEF FsMount, LoopSteps, MountingOK
<1>6. CASE StatDevice(p)
  BY <1>6, <1>a DEF StatDevice, LoopSteps, MountingOK
<1>7. CASE AttachLoop(p)
  BY <1>7, <1>a DEF AttachLoop, LoopSteps, MountingOK
<1>8. CASE Activate(p)
  <2>1. /\ pc[p] = "activate" /\ ~Present(Atom(p)) /\ UNCHANGED <<cmd, idx, mnt>>
        /\ pc'[p] = "confirmValidity"
        /\ dm' = [dm EXCEPT ![Atom(p)] = [hash |-> Hash(p), loop |-> loop[p]]]
    BY <1>8 DEF Activate
  <2>2. Atom(p) \in Atoms /\ Hash(p) \in Hashes /\ loop[p] \in Loops
    BY <2>1, AtomType DEF LocalsOK, VeritySteps
  <2>3. [hash |-> Hash(p), loop |-> loop[p]] # NoDevice
    BY <2>2, NoneAssumption DEF Device
  <2>4. Verified(Image(p), Atom(p))'
    BY <1>0, <2>1, <2>2, <2>3 DEF Verified, Present, Hash, Image, Atom
  <2>6. ~cmd[p].allow => \A j \in 1 .. idx'[p] - 1 :
          mnt'[Meta(p)][L[j]] = <<"dm">> /\ Verified(Image(p), L[j])'
    <3>1. ~cmd[p].allow => \A j \in 1 .. idx'[p] - 1 :
            mnt[Meta(p)][L[j]] = <<"dm">> /\ Verified(Image(p), L[j])
      BY <2>1 DEF MountingOK, LoopSteps
    <3>2. \A a : Verified(Image(p), a) => a # Atom(p)
      BY <2>1 DEF Verified
    <3>3. UNCHANGED <<Image(p), L>> /\ UNCHANGED mnt /\ UNCHANGED Meta(p) /\ idx' = idx
      BY <2>1 DEF Image, Meta, Target
    <3>4. ASSUME ~cmd[p].allow, NEW j \in 1 .. idx[p] - 1
          PROVE  mnt[Meta(p)][L[j]] = <<"dm">> /\ Present(L[j])' /\ dm'[L[j]].hash = RootHash[Image(p)][L[j]]
      <4>1. mnt[Meta(p)][L[j]] = <<"dm">> /\ Verified(Image(p), L[j]) /\ L[j] # Atom(p)
        BY <2>1, <3>1, <3>2, <3>4
      <4>2. dm'[L[j]] = dm[L[j]]
        BY <1>0, <2>1, <4>1
      <4>. QED BY <4>1, <4>2, <3>3 DEF Verified, Present
    <3>. QED BY <2>1, <3>3, <3>4 DEF Verified, Present
  <2>7. UNCHANGED <<Meta(p), Image(p), Atom(p), ByVerity(p)>>
    BY <2>1 DEF Meta, Target, Image, Atom, ByVerity, Hash
  <2>. QED BY <2>1, <2>4, <2>6, <2>7 DEF MountingOK, LoopSteps
<1>9. CASE ConfirmHash(p)
  BY <1>9, <1>a DEF ConfirmHash, LoopSteps, MountingOK, Verified, Hash
<1>10. CASE ConfirmValidity(p)
  BY <1>10, <1>a DEF ConfirmValidity, LoopSteps, MountingOK
<1>11. CASE MountDevice(p)
  <2>1. /\ pc[p] = "mountDevice" /\ UNCHANGED <<cmd, dm>> /\ pc'[p] = "nextAtom"
        /\ idx'[p] = idx[p] + 1
        /\ mnt' = [mnt EXCEPT ![Meta(p)][Atom(p)] = Append(@, "dm")]
    BY <1>11 DEF MountDevice
  <2>2. Meta(p) \in MetaDirs /\ Atom(p) \in Atoms
    BY <2>1, TargetType, AtomType
  <2>3. mnt[Meta(p)][Atom(p)] = << >> /\ Verified(Image(p), Atom(p))
    BY <2>1 DEF MountingOK
  <2>4. mnt' = [mnt EXCEPT ![Meta(p)][Atom(p)] = <<"dm">>]
    BY <1>0, <2>1, <2>2, <2>3, Stacks DEF KernelTypes
  <2>5. <<"dm">> \in Seq({"dm", "plain"})
    OBVIOUS
  <2>6. \A b \in Atoms : mnt'[Meta(p)][b] = IF b = Atom(p) THEN <<"dm">> ELSE mnt[Meta(p)][b]
    BY <1>0, <2>2, <2>4, <2>5, MntUpdate
  <2>7. ~cmd[p].allow => \A j \in 1 .. idx[p] - 1 :
          mnt[Meta(p)][L[j]] = <<"dm">> /\ Verified(Image(p), L[j])
    BY <2>1 DEF MountingOK, LoopSteps
  <2>8. cmd[p] \in MountCmd /\ idx[p] \in 1 .. Len(L)
    BY <2>1, ImageType DEF LocalsOK, LoopSteps
  <2>9. ~cmd[p].allow => \A j \in 1 .. idx'[p] - 1 :
          mnt'[Meta(p)][L[j]] = <<"dm">> /\ Verified(Image(p), L[j])
    <3>1. \A j \in 1 .. idx'[p] - 1 : (j \in 1 .. idx[p] - 1 \/ j = idx[p]) /\ j \in 1 .. Len(L)
      BY <2>1, <2>8, ImageType
    <3>2. \A j \in 1 .. Len(L) : L[j] \in Atoms
      BY <2>8, ImageType, ElementOfSeq
    <3>. QED BY <2>3, <2>6, <2>7, <3>1, <3>2 DEF Atom
  <2>. QED BY <2>1, <2>9 DEF MountingOK, Meta, Target, Image, Verified, Present
<1>12. CASE MountDeviceFails(p)
  BY <1>12, <1>a DEF MountDeviceFails, LoopSteps, MountingOK
<1>13. CASE MountPlain(p) \/ MountPlainGivesUp(p)
  <2>1. cmd' = cmd /\ pc'[p] = "nextAtom" /\ cmd[p].allow
    BY <1>13 DEF MountPlain, MountPlainGivesUp, MountingOK
  <2>. QED BY <2>1 DEF MountingOK
<1>14. CASE AtomsDone(p)
  BY <1>14, <1>a DEF AtomsDone, LoopSteps, MountingOK
<1>15. CASE WriteConfig(p)
  BY <1>15, <1>a DEF WriteConfig, LoopSteps, MountingOK
<1>16. CASE UndoDevice(p)
  <2>1. /\ pc[p] = "undoDevice" /\ pc'[p] = "undoLoop" /\ UNCHANGED <<cmd, idx, mnt>>
        /\ dm' = dm \/ (~DevBusy(Atom(p)) /\ dm' = [dm EXCEPT ![Atom(p)] = NoDevice])
    BY <1>16 DEF UndoDevice
  <2>2. UNCHANGED <<Meta(p), Image(p), Atom(p), ByVerity(p)>>
    BY <2>1 DEF Meta, Target, Image, Atom, ByVerity, Hash
  <2>3. ASSUME ~cmd[p].allow, NEW j \in 1 .. idx[p] - 1
        PROVE  mnt[Meta(p)][L[j]] = <<"dm">> /\ dm'[L[j]] = dm[L[j]] /\ Verified(Image(p), L[j])
    <3>1. mnt[Meta(p)][L[j]] = <<"dm">> /\ Verified(Image(p), L[j])
      BY <2>1, <2>3 DEF MountingOK, LoopSteps
    <3>2. Meta(p) \in MetaDirs
      BY <2>1, TargetType
    <3>3. ~DevBusy(Atom(p)) => L[j] # Atom(p)
      BY <3>1, <3>2, NotBusy
    <3>4. cmd[p] \in MountCmd /\ idx[p] \in 1 .. Len(L)
      BY <2>1 DEF LocalsOK, MountSteps, AtomSteps
    <3>5. L[j] \in Atoms
      BY <3>4, ImageType, ElementOfSeq
    <3>. QED BY <1>0, <2>1, <3>1, <3>3, <3>5
  <2>4. ~cmd[p].allow => \A j \in 1 .. idx'[p] - 1 :
          mnt'[Meta(p)][L[j]] = <<"dm">> /\ Verified(Image(p), L[j])'
    BY <2>1, <2>2, <2>3 DEF Verified, Present
  <2>. QED BY <2>1, <2>2, <2>4 DEF MountingOK, LoopSteps
<1>. QED BY <1>1, <1>2, <1>3, <1>4, <1>5, <1>6, <1>7, <1>8, <1>9, <1>10, <1>11,
            <1>12, <1>13, <1>14, <1>15, <1>16 DEF Advances

-----------------------------------------------------------------------------
(* Corruption is only a status of a device, and the end of all invocations *)
(* changes nothing.                                                        *)
LEMMA QuietStep ==
  ASSUME IndInv, UNCHANGED <<pc, cmd, fd, idx, loop, tries, lower, metadirs, upper, gen,
                             dm, loops, mnt, ovl>>,
         corrupt' \subseteq Atoms
  PROVE  IndInv'
<1>1. TypeOK'
  BY DEF IndInv, TypeOK, InvocationTypes, LocalTypes, FileTypes, KernelTypes
<1>2. Exclusion'
  BY DEF IndInv, Exclusion
<1>3. \A p \in Procs : LocalsOK(p)'
  BY DEF IndInv, LocalsOK, Image, Atom, Hash, Lower
<1>4. MountsOK' /\ OverlaysOK'
  BY DEF IndInv, MountsOK, OverlaysOK, OverlayOK, Verified, Present
<1>5. \A p \in Procs : MountingOK(p)'
  BY DEF IndInv, MountingOK, Meta, Target, Image, Atom, Hash, Verified, Present, ByVerity
<1>. QED BY <1>1, <1>2, <1>3, <1>4, <1>5 DEF IndInv

(* The invariant is inductive.                                             *)
LEMMA Inductive ==
  ASSUME CommonLock, IndInv, [Next]_vars
  PROVE  IndInv'
<1>1. CASE \E p \in Procs : Run(p) \/ Crash(p)
  <2>. PICK p \in Procs : Run(p) \/ Crash(p)
    BY <1>1
  <2>1. /\ TypeOK /\ LocalsOK(p) /\ MountsOK /\ MountingOK(p)
    BY DEF IndInv
  <2>2. TypeOK'
    BY <2>1, Typing
  <2>3. Exclusion'
    BY ExclusionStep
  <2>4. \A q \in Procs : LocalsOK(q)'
    BY LocalsStep DEF IndInv, LocalsInv
  <2>5. MountsOK' /\ OverlaysOK'
    BY MountsStep, OverlaysStep
  <2>6. \A q \in Procs : MountingOK(q)'
    BY <2>1, OwnMounting, OthersMounting
  <2>. QED BY <2>2, <2>3, <2>4, <2>5, <2>6 DEF IndInv
<1>2. CASE \E a \in Atoms : CorruptionFound(a)
  BY <1>2, QuietStep DEF CorruptionFound, invocation, locals, files, IndInv, TypeOK, KernelTypes
<1>3. CASE UNCHANGED vars
  BY <1>3, QuietStep DEF vars, IndInv, TypeOK, KernelTypes
<1>. QED BY <1>1, <1>2, <1>3 DEF Next, Terminated

(* The invariant holds at first.                                           *)
LEMMA Initially ==
  ASSUME Init
  PROVE  IndInv
<1>1. pc = [p \in Procs |-> "start"] /\ \A p \in Procs : cmd[p] \in Cmds[p]
  BY DEF Init
<1>2. InvocationTypes
  <2>1. \A p \in Procs : Cmds[p] \subseteq MountCmd \cup UmountCmd
    BY WorldAssumption
  <2>2. cmd \in [Procs -> UNION {Cmds[p] : p \in Procs}]
    BY DEF Init
  <2>3. cmd \in [Procs -> MountCmd \cup UmountCmd]
    BY <1>1, <2>1, <2>2
  <2>. QED BY <1>1, <2>3 DEF InvocationTypes
<1>3. LocalTypes
  <2>1. [dir |-> NoDir, gen |-> 0] \in LockFile
    BY DEF LockFile
  <2>2. << >> \in Seq(Atoms \cup {Stray})
    OBVIOUS
  <2>. QED BY <2>1, <2>2, Constants DEF Init, LocalTypes
<1>4. FileTypes
  BY DEF Init, FileTypes
<1>5. KernelTypes
  BY DEF Init, KernelTypes
<1>6. Exclusion /\ \A p \in Procs : LocalsOK(p) /\ MountingOK(p)
  <2>1. \A p \in Procs : idx[p] = 0
    BY DEF Init
  <2>. QED BY <1>1, <2>1 DEF Exclusion, LocalsOK, MountingOK, LoopSteps, VeritySteps, LowerSteps, Releasing
<1>7. MountsOK
  BY DEF Init, MountsOK
<1>8. OverlaysOK
  BY DEF Init, OverlaysOK
<1>. QED BY <1>2, <1>3, <1>4, <1>5, <1>6, <1>7, <1>8 DEF IndInv, TypeOK

(* What IndInv is for.                                                     *)
LEMMA Consequences ==
  ASSUME IndInv
  PROVE  TypeOK /\ Exclusion /\ LiveMoleculesVerified /\ DetectedDeviceStays
<1>1. LiveMoleculesVerified
  BY DEF IndInv, LiveMoleculesVerified, OverlaysOK, OverlayOK, Verified
<1>2. DetectedDeviceStays
  BY DEF IndInv, DetectedDeviceStays, MountingOK, Verified
<1>. QED BY <1>1, <1>2 DEF IndInv

-----------------------------------------------------------------------------
(* The local variables of an invocation are as its step needs them,        *)
(* whatever locks the invocations have.                                    *)
THEOREM LocalsInvariance == Spec => []LocalsInv
<1>1. Init => LocalsInv
  BY Initially DEF IndInv, LocalsInv
<1>2. LocalsInv /\ [Next]_vars => LocalsInv'
  BY LocalsInductive
<1>. QED BY <1>1, <1>2, PTL DEF Spec

(* Every variable of Mount, Umount and the kernel keeps its type.          *)
THEOREM TypeCorrect == Spec => []TypeOK
<1>1. LocalsInv => TypeOK
  BY DEF LocalsInv
<1>. QED BY <1>1, LocalsInvariance, PTL

(* Every step of an invocation brings it forward and none of another sets  *)
(* it back, among finitely many positions: no device that stays busy, no   *)
(* mount that fails and no process that interferes, even without the lock, *)
(* keeps Mount or Umount in a loop (molecule.go:82-137, 392-429,           *)
(* verity.go:333-349).                                                     *)
THEOREM StepsGoForward == Spec => StepsForward
<1>1. LocalsInv => TypeOK /\ PositionsBounded
  BY PositionBound DEF LocalsInv, PositionsBounded
<1>2. TypeOK /\ PositionsBounded' /\ [Next]_vars =>
        [\A p \in Procs :
           /\ Position(p)' \in Positions(p)'
           /\ \/ Before(Position(p), Position(p)')
              \/ Position(p)' = Position(p) /\ ~Run(p)]_vars
  <2>. SUFFICES ASSUME TypeOK, PositionsBounded', [Next]_vars, NEW p \in Procs
                PROVE  /\ Position(p)' \in Positions(p)'
                       /\ \/ Before(Position(p), Position(p)')
                          \/ Position(p)' = Position(p) /\ ~Run(p)
    OBVIOUS
  <2>1. Position(p)' \in Positions(p)'
    BY DEF PositionsBounded
  <2>2. CASE Run(p) \/ Crash(p)
    BY <2>1, <2>2, RunForward
  <2>3. CASE ~Run(p) /\ ~Crash(p)
    <3>1. pc'[p] = pc[p] /\ idx'[p] = idx[p] /\ tries'[p] = tries[p]
      <4>1. CASE \E q \in Procs \ {p} : Run(q) \/ Crash(q)
        BY <4>1, Frame
      <4>2. CASE UNCHANGED <<pc, idx, tries>>
        BY <4>2
      <4>. QED BY <2>3, <4>1, <4>2 DEF Next, Terminated, CorruptionFound, vars, invocation, locals
    <3>2. Position(p)' = Position(p)
      BY <3>1 DEF Position
    <3>. QED BY <2>1, <2>3, <3>2
  <2>. QED BY <2>2, <2>3
<1>. QED BY <1>1, <1>2, LocalsInvariance, PTL DEF Spec, StepsForward

(* The inductive invariant: with one lock file for all callers, at most    *)
(* one invocation is in the critical section of Mount and Umount, and what *)
(* it has found or set up there stays as it left it.                       *)
THEOREM Invariance ==
  ASSUME CommonLock
  PROVE  Spec => []IndInv
<1>1. Init => IndInv
  BY Initially
<1>2. IndInv /\ [Next]_vars => IndInv'
  BY Inductive
<1>. QED BY <1>1, <1>2, PTL DEF Spec

(* The flock of makeLock makes Mount and Umount exclude each other, for    *)
(* any number of invocations, killed ones included (molecule.go:176-198).  *)
THEOREM MutualExclusion ==
  ASSUME CommonLock
  PROVE  Spec => []Exclusion
<1>1. IndInv => Exclusion
  BY Consequences
<1>. QED BY <1>1, Invariance, PTL

(* Every layer of every molecule that was mounted without                  *)
(* --allow-missing-verity is read through a device that still exists and   *)
(* has the root hash of the manifest, whatever other invocations mounted,  *)
(* unmounted, failed at or were killed in (molecule.go:63-140,             *)
(* verity.go:197-305, 363-400).                                            *)
THEOREM MoleculesStayVerified ==
  ASSUME CommonLock
  PROVE  Spec => []LiveMoleculesVerified
<1>1. IndInv => LiveMoleculesVerified
  BY Consequences
<1>. QED BY <1>1, Invariance, PTL

(* A device that VerityHostMount has found, or set up, does not go away    *)
(* before it is mounted (molecule.go:176-179).                             *)
THEOREM DevicesStay ==
  ASSUME CommonLock
  PROVE  Spec => []DetectedDeviceStays
<1>1. IndInv => DetectedDeviceStays
  BY Consequences
<1>. QED BY <1>1, Invariance, PTL
=============================================================================

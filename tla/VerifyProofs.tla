---------------------------- MODULE VerifyProofs ----------------------------
(***************************************************************************)
(* Proofs about `atomfs verify` beside any number of Mounts and Umounts,   *)
(* with any failures, kills and corruption, provided that the invocations  *)
(* have one lock directory (CommonLock) and run one Mount at a time for a  *)
(* metadata directory (SerialMounts).                                      *)
(***************************************************************************)
EXTENDS Verify, PlaceProofs

USE DEF Critical, MountSteps, AtomSteps, UmountSteps, BeforeLock, Steps, Final

(* A device of a molecule that is corrupt stays so: only the removal of a  *)
(* device makes its status good again.                                     *)
LEMMA CorruptStays ==
  ASSUME IndInv, [Next]_vars, NEW t \in Targets, NEW k \in DOMAIN ovl[t],
         NEW a \in ovl[t][k].pins, a \in corrupt
  PROVE  a \in corrupt'
<1>1. DevBusy(a)
  BY DEF DevBusy
<1>2. CASE \E p \in Procs : Run(p) \/ Crash(p)
  <2>. PICK p \in Procs : Run(p) \/ Crash(p)
    BY <1>2
  <2>1. corrupt' = corrupt \/ UndoDevice(p) \/ Deactivate(p)
    <3>. USE DEF kernel
    <3>1. CASE BeforeLockStep(p)
      BY <3>1 DEF BeforeLockStep, StartMount, StartUmount, EnsureDir, MakeLock, MakeLockFails, Flock, FlockFails
    <3>2. CASE VerityMountStep(p)
      BY <3>2 DEF VerityMountStep, StatDevice, AttachLoop, AttachLoopFails, Activate, ActivateFails, ConfirmHash, ConfirmValidity, MountDevice, MountDeviceFails, UndoLoop
    <3>3. CASE MountStep(p)
      BY <3>3 DEF MountStep, OverlayLowerDirs, RefuseAtom, ReuseMounted, MakeMountpoint, FsMount, FsMountFails, MountPlain, MountPlainGivesUp, MountPlainDies, MountPlainFails, AtomsDone, WriteConfig, WriteConfigFails, MountOverlay, MountOverlayFails, Cleanup
    <3>4. CASE UmountStep(p)
      BY <3>4 DEF UmountStep, FindOverlay, FindOverlayFails, UmountTop, UmountTopFails, UmountAtom, UmountAtomFails, CheckUsed, CheckUsedFails, DeactivateFails, Detach, LowersDone, RemoveMeta, RemoveMetaFails
    <3>5. CASE Crash(p)
      BY <3>5 DEF Crash
    <3>. QED BY <3>1, <3>2, <3>3, <3>4, <3>5 DEF Run
  <2>2. CASE UndoDevice(p)
    BY <1>1, <2>2 DEF UndoDevice
  <2>3. CASE Deactivate(p)
    BY <1>1, <2>3 DEF Deactivate
  <2>. QED BY <2>1, <2>2, <2>3
<1>3. CASE (\E b \in Atoms : CorruptionFound(b)) \/ UNCHANGED vars
  BY <1>3 DEF CorruptionFound, vars
<1>. QED BY <1>2, <1>3 DEF Next, Terminated

-----------------------------------------------------------------------------
(* The verify.                                                             *)

(* The overlay that verify watches.                                        *)
LEMMA Watching ==
  ASSUME IndInv, PlaceInv, OnlyLayers, vt \in Targets, ovl[vt] # << >>
  PROVE  /\ 1 \in DOMAIN ovl[vt] /\ Last(ovl[vt]) = ovl[vt][1]
         /\ Watched \subseteq Atoms
         /\ \A a \in Watched : Present(a) /\ mnt[MetaOf[vt]][a] = <<"dm">>
         /\ ~Last(ovl[vt]).allow =>
              \A a \in Atoms : mnt[MetaOf[vt]][a] # << >> => a \in Watched
<1>0. /\ TypeOK /\ OneMolecule /\ OverlaysOK
      /\ ovl[vt] \in Seq(Overlay)
  BY DEF IndInv, PlaceInv, TypeOK, KernelTypes
<1>1. ovl[vt][1] \in Overlay /\ Last(ovl[vt]) = ovl[vt][1]
  BY <1>0, SingleOverlay
<1>2. 1 \in DOMAIN ovl[vt]
  BY <1>0, EmptySeq, LenProperties
<1>3. OverlayOK(ovl[vt][1])
  BY <1>0, <1>2 DEF OverlaysOK
<1>4. Watched = ovl[vt][1].pins /\ Watched \subseteq Atoms
  BY <1>1 DEF Watched, Overlay
<1>5. \A a \in Watched : Present(a) /\ mnt[MetaOf[vt]][a] = <<"dm">>
  BY <1>3, <1>4 DEF OverlayOK, OnlyLayers
<1>6. ~Last(ovl[vt]).allow =>
        \A a \in Atoms : mnt[MetaOf[vt]][a] # << >> => a \in Watched
  BY <1>1, <1>3, <1>4 DEF OverlayOK, OnlyLayers
<1>. QED BY <1>1, <1>2, <1>4, <1>5, <1>6

(* What verify lists of it.                                                *)
LEMMA ListedOf ==
  ASSUME IndInv, PlaceInv, OnlyLayers, vt \in Targets, ovl[vt] # << >>
  PROVE  /\ \A a \in Watched \ Erofs : <<a, "dm">> \in Listed(MetaOf[vt])
         /\ ~Last(ovl[vt]).allow => Listed(MetaOf[vt]) \subseteq Watched \X {"dm"}
<1>1. ASSUME NEW a \in Watched \ Erofs PROVE <<a, "dm">> \in Listed(MetaOf[vt])
  <2>1. a \in Atoms /\ mnt[MetaOf[vt]][a] = <<"dm">>
    BY Watching
  <2>. QED BY <2>1, Stacks DEF Listed
<1>2. ASSUME ~Last(ovl[vt]).allow, NEW x \in Listed(MetaOf[vt])
      PROVE  x \in Watched \X {"dm"}
  <2>1. /\ x[1] \in Atoms /\ x[2] \in {"dm", "plain"} /\ x = <<x[1], x[2]>>
        /\ x[2] \in ToSet(mnt[MetaOf[vt]][x[1]])
    BY DEF Listed
  <2>2. mnt[MetaOf[vt]][x[1]] # << >>
    BY <2>1 DEF ToSet
  <2>3. x[1] \in Watched
    BY <1>2, <2>1, <2>2, Watching
  <2>4. x[2] = "dm"
    BY <2>1, <2>3, Watching, Stacks
  <2>. QED BY <2>1, <2>3, <2>4
<1>. QED BY <1>1, <1>2

LEMMA LookForTargetStep ==
  ASSUME IndInv, PlaceInv, VerifyInv, LookForTarget
  PROVE  VerifyInv'
<1>1. UNCHANGED <<pc, cmd, metadirs, mnt, ovl, corrupt, dm>>
  BY DEF LookForTarget, vars
<1>2. OnlyLayers'
  BY <1>1 DEF VerifyInv, OnlyLayers, MountedIn, Mounting, Meta, Target, Image
<1>3. corrupt \subseteq Atoms
  BY DEF IndInv, TypeOK, KernelTypes
<1>4. VerifyTypes'
  BY <1>1, <1>3 DEF VerifyInv, VerifyTypes, LookForTarget
<1>5. ReadingOK' /\ VerifyFindsCorruption' /\ NoFalseAlarm'
  BY <1>1 DEF VerifyInv, ReadingOK, VerifyFindsCorruption, NoFalseAlarm, LookForTarget
<1>. QED BY <1>2, <1>4, <1>5 DEF VerifyInv

LEMMA ParseMountsStep ==
  ASSUME IndInv, PlaceInv, VerifyInv, ParseMounts
  PROVE  VerifyInv'
<1>0. OnlyLayers /\ VerifyTypes /\ ReadingOK
  BY DEF VerifyInv
<1>1. /\ UNCHANGED <<pc, cmd, metadirs, mnt, ovl, corrupt, dm>>
      /\ UNCHANGED <<vt, allOK, known, steady>>
      /\ vpc = "parseMounts" /\ vpc' = IF todo' = {} THEN "err" ELSE "confirm"
  BY DEF ParseMounts, vars
<1>2. Watched' = Watched /\ Last(ovl[vt])' = Last(ovl[vt])
  BY <1>1 DEF Watched
<1>3. OnlyLayers'
  BY <1>0, <1>1 DEF OnlyLayers, MountedIn, Mounting, Meta, Target, Image
<1>4. /\ todo' \subseteq Listed(MetaOf[vt])
      /\ \A a \in Atoms : <<a, "dm">> \in Listed(MetaOf[vt]) => <<a, "dm">> \in todo'
  BY DEF ParseMounts
<1>5. VerifyTypes'
  BY <1>0, <1>1, <1>4 DEF VerifyTypes, Listed
<1>6. vt \in Targets /\ allOK /\ (steady => ovl[vt] # << >>)
  BY <1>0, <1>1 DEF VerifyTypes, ReadingOK
<1>7. ASSUME ovl[vt] # << >>
      PROVE  /\ \A a \in Watched \ Erofs : <<a, "dm">> \in todo'
             /\ ~Last(ovl[vt]).allow => todo' \subseteq Watched \X {"dm"}
  BY <1>0, <1>4, <1>6, <1>7, Watching, ListedOf
<1>8. ReadingOK'
  BY <1>1, <1>2, <1>6, <1>7 DEF ReadingOK
<1>9. VerifyFindsCorruption'
  BY <1>1 DEF VerifyFindsCorruption
<1>10. NoFalseAlarm'
  BY <1>1, <1>2, <1>7 DEF NoFalseAlarm
<1>. QED BY <1>3, <1>5, <1>8, <1>9, <1>10 DEF VerifyInv

LEMMA ConfirmOneStep ==
  ASSUME IndInv, PlaceInv, VerifyInv, ConfirmOne
  PROVE  VerifyInv'
<1>0. OnlyLayers /\ VerifyTypes /\ ReadingOK
  BY DEF VerifyInv
<1>1. /\ UNCHANGED <<pc, cmd, metadirs, mnt, ovl, corrupt, dm>>
      /\ UNCHANGED <<vpc, vt, known, steady>> /\ vpc = "confirm"
  BY DEF ConfirmOne, vars
<1>2. PICK x \in todo : allOK' = (allOK /\ Confirmed(x)) /\ todo' = todo \ {x}
  BY DEF ConfirmOne
<1>3. Watched' = Watched /\ Last(ovl[vt])' = Last(ovl[vt])
  BY <1>1 DEF Watched
<1>4. OnlyLayers'
  BY <1>0, <1>1 DEF OnlyLayers, MountedIn, Mounting, Meta, Target, Image
<1>5. allOK' \in BOOLEAN /\ (~allOK => ~allOK') /\ (~Confirmed(x) => ~allOK')
  BY <1>0, <1>2 DEF VerifyTypes
<1>6. VerifyTypes'
  BY <1>0, <1>1, <1>2, <1>5 DEF VerifyTypes
<1>7. \A a \in known : ~Confirmed(<<a, "dm">>)
  BY <1>0 DEF VerifyTypes, Confirmed
<1>8. ASSUME steady, NEW a \in (Watched \cap known) \ Erofs
      PROVE  <<a, "dm">> \in todo' \/ ~allOK'
  BY <1>0, <1>1, <1>2, <1>5, <1>7, <1>8 DEF ReadingOK
<1>9. ASSUME steady, ~Last(ovl[vt]).allow
      PROVE  /\ todo' \subseteq Watched \X {"dm"}
             /\ allOK' \/ Watched \cap corrupt # {}
  <2>1. todo \subseteq Watched \X {"dm"} /\ (allOK \/ Watched \cap corrupt # {})
    BY <1>0, <1>1, <1>9 DEF ReadingOK
  <2>2. x[1] \in Watched /\ x[2] = "dm"
    BY <2>1
  <2>3. Present(x[1])
    BY <1>0, <1>1, <1>9, <2>2, Watching DEF ReadingOK, VerifyTypes
  <2>4. ~Confirmed(x) => x[1] \in corrupt
    BY <2>2, <2>3 DEF Confirmed
  <2>. QED BY <1>2, <2>1, <2>2, <2>4
<1>10. ReadingOK'
  BY <1>0, <1>1, <1>3, <1>8, <1>9 DEF ReadingOK
<1>11. VerifyFindsCorruption' /\ NoFalseAlarm'
  BY <1>1 DEF VerifyFindsCorruption, NoFalseAlarm
<1>. QED BY <1>4, <1>6, <1>10, <1>11 DEF VerifyInv

LEMMA VerdictStep ==
  ASSUME IndInv, PlaceInv, VerifyInv, Verdict
  PROVE  VerifyInv'
<1>0. OnlyLayers /\ VerifyTypes /\ ReadingOK
  BY DEF VerifyInv
<1>1. /\ UNCHANGED <<pc, cmd, metadirs, mnt, ovl, corrupt, dm>>
      /\ UNCHANGED <<vt, todo, allOK, known, steady>>
      /\ vpc = "confirm" /\ todo = {} /\ vpc' = IF allOK THEN "ok" ELSE "corrupt"
  BY DEF Verdict, vars
<1>2. Watched' = Watched /\ Last(ovl[vt])' = Last(ovl[vt])
  BY <1>1 DEF Watched
<1>3. OnlyLayers'
  BY <1>0, <1>1 DEF OnlyLayers, MountedIn, Mounting, Meta, Target, Image
<1>4. VerifyTypes' /\ ReadingOK'
  BY <1>0, <1>1 DEF VerifyTypes, ReadingOK
<1>5. VerifyFindsCorruption'
  BY <1>0, <1>1, <1>2 DEF ReadingOK, VerifyFindsCorruption
<1>6. NoFalseAlarm'
  BY <1>0, <1>1, <1>2 DEF ReadingOK, NoFalseAlarm
<1>. QED BY <1>3, <1>4, <1>5, <1>6 DEF VerifyInv

(* What the others do while verify reads.                                  *)
LEMMA BesideStep ==
  ASSUME CommonLock, SerialMounts, IndInv, PlaceInv, VerifyInv, Next, Beside
  PROVE  VerifyInv'
<1>0. OnlyLayers /\ VerifyTypes /\ ReadingOK /\ VerifyFindsCorruption /\ NoFalseAlarm
  BY DEF VerifyInv
<1>1. /\ UNCHANGED <<vpc, vt, todo, allOK>> /\ known' = known \cap corrupt'
      /\ steady' = (vpc = "isMountpoint" \/ (steady /\ ovl'[vt] = ovl[vt]))
  BY DEF Beside
<1>2. OnlyLayers'
  BY <1>0, OnlyLayersStep
<1>3. VerifyTypes'
  BY <1>0, <1>1 DEF VerifyTypes
<1>4. ASSUME steady', vpc # "isMountpoint"
      PROVE  /\ steady /\ ovl'[vt'] = ovl[vt] /\ Watched' = Watched
             /\ Last(ovl'[vt']) = Last(ovl[vt])
  BY <1>1, <1>4 DEF Watched
<1>5. ovl[vt] # << >> => Watched \cap corrupt \subseteq corrupt'
  <2>. SUFFICES ASSUME ovl[vt] # << >>, NEW a \in Watched, a \in corrupt
                PROVE  a \in corrupt'
    OBVIOUS
  <2>1. vt \in Targets /\ 1 \in DOMAIN ovl[vt] /\ Last(ovl[vt]) = ovl[vt][1]
    BY <1>0, Watching DEF VerifyTypes
  <2>2. a \in ovl[vt][1].pins
    BY <2>1 DEF Watched
  <2>. QED BY <2>1, <2>2, CorruptStays
<1>6. ReadingOK'
  <2>1. vpc' \in {"isMountpoint", "parseMounts"} => allOK'
    BY <1>0, <1>1 DEF ReadingOK
  <2>2. vpc' = "isMountpoint" => steady'
    BY <1>1
  <2>3. steady' /\ vpc' \in {"parseMounts", "confirm"} => ovl'[vt'] # << >>
    BY <1>0, <1>1, <1>4 DEF ReadingOK
  <2>4. ASSUME steady', vpc' = "confirm"
        PROVE  /\ \A a \in (Watched' \cap known') \ Erofs : <<a, "dm">> \in todo' \/ ~allOK'
               /\ ~Last(ovl'[vt']).allow =>
                    /\ todo' \subseteq Watched' \X {"dm"}
                    /\ allOK' \/ Watched' \cap corrupt' # {}
    <3>1. steady /\ vpc = "confirm" /\ Watched' = Watched /\ Last(ovl'[vt']) = Last(ovl[vt])
      BY <1>1, <1>4, <2>4
    <3>2. ovl[vt] # << >>
      BY <1>0, <3>1 DEF ReadingOK
    <3>3. Watched \cap corrupt # {} => Watched \cap corrupt' # {}
      BY <1>5, <3>2
    <3>. QED BY <1>0, <1>1, <3>1, <3>3 DEF ReadingOK
  <2>. QED BY <2>1, <2>2, <2>3, <2>4 DEF ReadingOK
<1>7. VerifyFindsCorruption'
  BY <1>0, <1>1, <1>4 DEF VerifyFindsCorruption
<1>8. NoFalseAlarm'
  <2>. SUFFICES ASSUME vpc' \in {"corrupt", "err"}, steady', ovl'[vt'] # << >>
                PROVE  \/ Last(ovl'[vt']).allow
                       \/ Watched' \cap corrupt' # {}
                       \/ Watched' \subseteq Erofs
    BY DEF NoFalseAlarm
  <2>1. steady /\ ovl'[vt'] = ovl[vt] /\ Watched' = Watched /\ vpc = vpc'
    BY <1>1, <1>4
  <2>2. \/ Last(ovl[vt]).allow \/ Watched \cap corrupt # {} \/ Watched \subseteq Erofs
    BY <1>0, <2>1 DEF NoFalseAlarm
  <2>. QED BY <1>5, <2>1, <2>2
<1>. QED BY <1>2, <1>3, <1>6, <1>7, <1>8 DEF VerifyInv

LEMMA VerifyInitially ==
  ASSUME VerifyInit
  PROVE  VerifyInv
<1>1. /\ mnt = [m \in MetaDirs |-> [a \in Atoms |-> << >>]]
      /\ ovl = [t \in Targets |-> << >>] /\ pc = [p \in Procs |-> "start"] /\ corrupt = {}
  BY DEF VerifyInit, Init
<1>2. OnlyLayers
  BY OnlyLayersInitially DEF VerifyInit
<1>3. VerifyTypes /\ ReadingOK /\ VerifyFindsCorruption /\ NoFalseAlarm
  BY <1>1 DEF VerifyInit, VerifyTypes, ReadingOK, VerifyFindsCorruption, NoFalseAlarm
<1>. QED BY <1>2, <1>3 DEF VerifyInv

LEMMA VerifyInductive ==
  ASSUME CommonLock, SerialMounts, IndInv, PlaceInv, VerifyInv, [VerifyNext]_vvars
  PROVE  VerifyInv'
<1>1. CASE VerifyStep
  BY <1>1, LookForTargetStep, ParseMountsStep, ConfirmOneStep, VerdictStep DEF VerifyStep
<1>2. CASE Next /\ Beside
  BY <1>2, BesideStep
<1>3. CASE UNCHANGED vvars
  BY <1>3 DEF vvars, vars, VerifyInv, OnlyLayers, MountedIn, Mounting, Meta, Target, Image,
     VerifyTypes, ReadingOK, Watched, VerifyFindsCorruption, NoFalseAlarm
<1>. QED BY <1>1, <1>2, <1>3 DEF VerifyNext

(* The invariants of Molecule hold beside a verify, which changes nothing, *)
(* and so does what verify has read of the molecule it looks at            *)
(* (cmd/atomfs/verify.go:32-105).                                          *)
THEOREM VerifyInvariance ==
  ASSUME CommonLock, SerialMounts
  PROVE  VerifySpec => []VerifyInv
<1>1. VerifySpec => VerifyInit /\ [][VerifyNext]_vvars
  BY PTL DEF VerifySpec
<1>2. VerifyInit => Init /\ VerifyInv
  BY VerifyInitially DEF VerifyInit
<1>3. [VerifyNext]_vvars => [Next]_vars
  BY DEF VerifyNext, VerifyStep, LookForTarget, ParseMounts, ConfirmOne, Verdict, vvars
<1>4. IndInv /\ PlaceInv /\ VerifyInv /\ [VerifyNext]_vvars => VerifyInv'
  BY VerifyInductive
<1>5. VerifySpec => Spec
  BY <1>1, <1>2, <1>3, PTL DEF Spec
<1>. QED BY <1>1, <1>2, <1>4, <1>5, Invariance, PlaceInvariance, PTL

(* A molecule that stays mounted is not reported as good when a squashfs   *)
(* layer of it was corrupt from the beginning (verify.go:84-105).          *)
THEOREM CorruptionFoundByVerify ==
  ASSUME CommonLock, SerialMounts
  PROVE  VerifySpec => []VerifyFindsCorruption
<1>1. VerifyInv => VerifyFindsCorruption
  BY DEF VerifyInv
<1>. QED BY <1>1, VerifyInvariance, PTL

(* A molecule that stays mounted is not complained about for what happens  *)
(* to others (verify.go:52-98).                                            *)
THEOREM NoAlarmForOthers ==
  ASSUME CommonLock, SerialMounts
  PROVE  VerifySpec => []NoFalseAlarm
<1>1. VerifyInv => NoFalseAlarm
  BY DEF VerifyInv
<1>. QED BY <1>1, VerifyInvariance, PTL
=============================================================================

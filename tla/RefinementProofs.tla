-------------------------- MODULE RefinementProofs --------------------------
(***************************************************************************)
(* Molecule implements AtomicMolecule, for any number of invocations,      *)
(* molecules, layers and images, with any failures, kills and corruption,  *)
(* for callers that have one lock directory (CommonLock) and run one Mount *)
(* at a time for a metadata directory (SerialMounts).                      *)
(***************************************************************************)
EXTENDS UmountProofs

USE DEF Critical, MountSteps, AtomSteps, UmountSteps, BeforeLock, Steps, Final

-----------------------------------------------------------------------------
(* The steps by what users see of them.                                    *)

(* The invocation goes on, and nothing of it is seen.                      *)
SamePhase(p) ==
  /\ pc[p] \notin Final /\ pc'[p] \notin Final
  /\ pc'[p] \in Releasing <=> pc[p] \in Releasing
  /\ pc[p] \in Releasing => lower'[p] = lower[p]

(* It ends, and with success only after it has removed its metadata.       *)
Ends(p) ==
  /\ pc[p] \notin Final /\ pc'[p] \in Final
  /\ pc'[p] = "ok" => pc[p] = "removeMeta"

LEMMA Kinds ==
  ASSUME TypeOK, NEW p \in Procs, Run(p) \/ Crash(p)
  PROVE  \/ MountOverlay(p) \/ UmountTop(p) \/ Ends(p) \/ SamePhase(p)
<1>0. /\ pc \in [Procs -> Steps] /\ lower \in [Procs -> Seq(Atoms \cup {Stray})]
  BY DEF TypeOK, InvocationTypes, LocalTypes
<1>. USE <1>0 DEF Goto, Exit, FailMount, locals, SamePhase, Ends, Releasing
<1>1. CASE BeforeLockStep(p)
  BY <1>1 DEF BeforeLockStep, StartMount, StartUmount, EnsureDir, MakeLock, MakeLockFails, Flock, FlockFails
<1>2. CASE VerityMountStep(p)
  BY <1>2 DEF VerityMountStep, StatDevice, AttachLoop, AttachLoopFails, Activate, ActivateFails, ConfirmHash, ConfirmValidity, MountDevice, MountDeviceFails, UndoDevice, UndoLoop
<1>3. CASE MountStep(p)
  BY <1>3 DEF MountStep, OverlayLowerDirs, RefuseAtom, ReuseMounted, AtNextAtom, MakeMountpoint, FsMount, FsMountFails, MountPlain, MountPlainGivesUp, MountPlainDies, MountPlainFails, AtomsDone, WriteConfig, WriteConfigFails, MountOverlayFails, Cleanup
<1>4. CASE UmountStep(p)
  BY <1>4 DEF UmountStep, FindOverlay, FindOverlayFails, UmountTopFails, UmountAtom, AtLower, UmountAtomFails, CheckUsed, CheckUsedFails, DeactivateFails, Deactivate, Detach, LowersDone, RemoveMeta, RemoveMetaFails
<1>5. CASE Crash(p)
  BY <1>5 DEF Crash
<1>. QED BY <1>1, <1>2, <1>3, <1>4, <1>5 DEF Run

(* Only these three change a device.                                       *)
LEMMA DeviceChanges ==
  ASSUME NEW p \in Procs, Run(p) \/ Crash(p)
  PROVE  \/ dm' = dm
         \/ (Activate(p) \/ UndoDevice(p) \/ Deactivate(p))
BY Footprint DEF Touches, Activate, UndoDevice, Deactivate, MountDevice, MountPlain, MountPlainDies, MountOverlay, UmountTop, UmountAtom

-----------------------------------------------------------------------------
(* The views.                                                              *)

(* An invocation shows as before to the others.                            *)
LEMMA OthersView ==
  ASSUME TypeOK, NEW p \in Procs, Run(p) \/ Crash(p)
  PROVE  \A q \in Procs \ {p} : Phase'[q] = Phase[q] /\ Release'[q] = Release[q]
<1>1. \A q \in Procs \ {p} : pc'[q] = pc[q] /\ lower'[q] = lower[q]
  BY Frame
<1>. QED BY <1>1 DEF Phase, Release

(* A molecule that is seen on a target is the overlay there.               *)
LEMMA Seen ==
  ASSUME TypeOK, OneMolecule, NEW t \in Targets
  PROVE  /\ ovl[t] = << >> => Live[t] = Off
         /\ ovl[t] # << >> => /\ Live[t] = ovl[t][1] /\ Live[t] # Off
                              /\ 1 \in DOMAIN ovl[t]
<1>1. CASE ovl[t] = << >>
  BY <1>1 DEF Live
<1>2. CASE ovl[t] # << >>
  <2>. DEFINE o == ovl[t][1]
  <2>1. o \in Overlay /\ ovl[t] = <<o>> /\ Last(ovl[t]) = o
    BY <1>2, SingleOverlay
  <2>2. Live[t] = o
    BY <1>2, <2>1 DEF Live
  <2>. HIDE DEF o
  <2>3. 1 \in DOMAIN <<o>>
    OBVIOUS
  <2>. QED BY <1>2, <2>1, <2>2, <2>3, OffAssumption DEF o
<1>. QED BY <1>1, <1>2

(* A device that is there shows its root hash.                             *)
LEMMA SeenDevice ==
  ASSUME TypeOK, NEW a \in Atoms
  PROVE  /\ Present(a) => Dev[a] = dm[a].hash /\ Dev[a] \in Hashes /\ Dev[a] # NoDevice
         /\ ~Present(a) => Dev[a] = NoDevice
<1>1. dm[a] \in Device \cup {NoDevice}
  BY DEF TypeOK, KernelTypes
<1>2. Present(a) => dm[a].hash \in Hashes
  BY <1>1 DEF Present, Device
<1>. QED BY <1>2, OffAssumption DEF Dev

-----------------------------------------------------------------------------
(* The steps of AtomicMolecule.                                            *)

LEMMA MountSeen ==
  ASSUME IndInv, PlaceInv, NEW p \in Procs, MountOverlay(p)
  PROVE  Atomic!MountTakesEffect(p)
<1>0. /\ TypeOK /\ PlaceOK(p) /\ LocalsOK(p) /\ MountingOK(p) /\ MountsOK
      /\ Target(p) \in Targets /\ pc[p] = "mountOverlay" /\ OneMolecule
      /\ Run(p)
  BY TargetType DEF IndInv, PlaceInv, MountOverlay, Run, MountStep
<1>. DEFINE t == Target(p)
            o == NewOverlay(p)
<1>1. /\ pc' = [pc EXCEPT ![p] = "ok"] /\ cmd' = cmd /\ dm' = dm
      /\ pc \in [Procs -> Steps] /\ lower' = [lower EXCEPT ![p] = << >>]
  BY <1>0 DEF MountOverlay, Exit, Goto, TypeOK, InvocationTypes
<1>2. /\ cmd[p] \in MountCmd /\ cmd[p].op = "mount" /\ NothingOn(Meta(p))
  BY <1>0, OverlayByMount DEF LocalsOK, PlaceOK, MountCmd
<1>3. o \in Overlay /\ OverlayOK(o)
  BY <1>0, NewOverlayOK
<1>4. /\ ovl'[t] = <<o>>
      /\ \A u \in Targets : u # t => ovl'[u] = ovl[u]
  BY <1>0, <1>2, AfterMount
<1>5. /\ Phase[p] = "running" /\ Phase' = [Phase EXCEPT ![p] = "ok"]
      /\ Release' = Release
  <2>1. Phase[p] = "running" /\ Phase'[p] = "ok" /\ Release[p] = << >> /\ Release'[p] = << >>
    BY <1>0, <1>1 DEF Phase, Release, Releasing
  <2>. QED BY <1>0, <2>1, OthersView DEF Phase, Release
<1>6. Live' = [Live EXCEPT ![t] = o]
  <2>1. Live'[t] = o
    <3>. HIDE DEF o
    <3>1. <<o>> # << >> /\ Last(<<o>>) = o
      BY DEF Last
    <3>. QED BY <1>0, <1>4, <3>1 DEF Live
  <2>2. \A u \in Targets : u # t => Live'[u] = Live[u]
    BY <1>4 DEF Live
  <2>. QED BY <1>0, <2>1, <2>2 DEF Live
<1>7. \A u \in Targets : MetaOf[u] = MetaOf[t] => Live[u] = Off
  BY <1>2 DEF NothingOn, Live, Meta
<1>8. Dev' = Dev
  BY <1>1 DEF Dev, Present
<1>9. /\ o = [image |-> cmd[p].image, allow |-> cmd[p].allow, over |-> cmd[p].over,
              pins |-> o.pins, gaps |-> o.gaps]
      /\ o.image = cmd[p].image /\ o.allow = cmd[p].allow
  BY DEF NewOverlay, Image
<1>10. o.pins \in SUBSET {a \in Atoms : Dev[a] # NoDevice}
  <2>1. o.pins \subseteq Atoms
    BY <1>3 DEF Overlay
  <2>. QED BY <1>0, <1>3, <2>1, SeenDevice DEF OverlayOK
<1>11. ~cmd[p].allow => \A a \in Atomic!LayersOf(cmd[p].image) :
                          a \in o.pins /\ Dev[a] = RootHash[cmd[p].image][a]
  <2>1. Atomic!LayersOf(cmd[p].image) = ToSet(Layers[o.image])
    BY <1>9 DEF Atomic!LayersOf, ToSet
  <2>2. \A a \in o.pins : a \in Atoms
    BY <1>10
  <2>. QED BY <1>0, <1>3, <1>9, <2>1, <2>2, SeenDevice DEF OverlayOK, Verified
<1>12. o.gaps \in SUBSET Atomic!LayersOf(cmd[p].image) /\ (o.gaps # {} => cmd[p].allow)
  <2>1. o.gaps \subseteq ToSet(Layers[o.image])
    BY DEF NewOverlay
  <2>2. o.gaps \subseteq Atomic!LayersOf(cmd[p].image)
    BY <1>9, <2>1 DEF Atomic!LayersOf, ToSet
  <2>3. ASSUME ~cmd[p].allow, NEW a \in o.gaps PROVE FALSE
    <3>1. a \in o.pins
      BY <1>3, <1>9, <2>1, <2>3 DEF OverlayOK
    <3>. QED BY <2>3, <3>1 DEF NewOverlay, DevOnTop
  <2>. QED BY <2>2, <2>3
<1>. HIDE DEF o
<1>13. t = cmd[p].target
  BY DEF Target
<1>. QED BY <1>1, <1>2, <1>5, <1>6, <1>7, <1>8, <1>9, <1>10, <1>11, <1>12, <1>13 DEF Atomic!MountTakesEffect

LEMMA UmountSeen ==
  ASSUME IndInv, PlaceInv, UmountInv, NEW p \in Procs, UmountTop(p)
  PROVE  Atomic!UmountTakesEffect(p)
<1>0. /\ TypeOK /\ PlaceOK(p) /\ Target(p) \in Targets /\ pc[p] = "umountTop" /\ OneMolecule
      /\ Run(p) /\ UmountOK(p)
  BY TargetType DEF IndInv, PlaceInv, UmountInv, UmountTop, Run, UmountStep
<1>. DEFINE t == Target(p)
<1>1. /\ pc' = [pc EXCEPT ![p] = "nextLower"] /\ cmd' = cmd /\ dm' = dm /\ lower' = lower
      /\ pc \in [Procs -> Steps]
  BY <1>0 DEF UmountTop, Goto, TypeOK, InvocationTypes
<1>2. /\ ovl[t] # << >> /\ ovl'[t] = << >>
      /\ \A u \in Targets : u # t => ovl'[u] = ovl[u]
  BY <1>0, AfterUmount
<1>3. cmd[p].op = "umount" /\ lower[p] = OverlayLower(Head(ovl[t]))
  BY <1>0 DEF IndInv, LocalsOK, UmountOK
<1>4. Head(ovl[t]) = Live[t] /\ Live[t] # Off
  BY <1>0, <1>2, SingleOverlay, Seen
<1>5. /\ Phase[p] = "running" /\ Phase' = [Phase EXCEPT ![p] = "tookOff"]
  <2>1. Phase[p] = "running" /\ Phase'[p] = "tookOff"
    BY <1>0, <1>1 DEF Phase, Releasing
  <2>. QED BY <1>0, <2>1, OthersView DEF Phase
<1>6. Release' = [Release EXCEPT ![p] = Atomic!LowerOf(Live[t])]
  <2>1. Release'[p] = Atomic!LowerOf(Live[t])
    BY <1>0, <1>1, <1>3, <1>4 DEF Release, Releasing, OverlayLower, Atomic!LowerOf
  <2>. QED BY <1>0, <2>1, OthersView DEF Release
<1>7. Live' = [Live EXCEPT ![t] = Off]
  <2>1. Live'[t] = Off /\ \A u \in Targets : u # t => Live'[u] = Live[u]
    BY <1>0, <1>2 DEF Live
  <2>. QED BY <1>0, <2>1 DEF Live
<1>8. Dev' = Dev
  BY <1>1 DEF Dev, Present
<1>9. t = cmd[p].target
  BY DEF Target
<1>. QED BY <1>1, <1>3, <1>4, <1>5, <1>6, <1>7, <1>8, <1>9 DEF Atomic!UmountTakesEffect

LEMMA EndSeen ==
  ASSUME TypeOK, NEW p \in Procs, Run(p) \/ Crash(p), Ends(p), UNCHANGED <<dm, ovl>>
  PROVE  Atomic!End(p)
<1>1. cmd' = cmd /\ pc'[p] \in Final
  BY Frame DEF Ends
<1>2. Phase' = [Phase EXCEPT ![p] = pc'[p]]
  <2>1. Phase'[p] = pc'[p]
    BY <1>1 DEF Phase
  <2>. QED BY <2>1, OthersView DEF Phase
<1>3. Release' = [Release EXCEPT ![p] = << >>]
  <2>1. Release'[p] = << >>
    BY <1>1 DEF Release, Releasing
  <2>. QED BY <2>1, OthersView DEF Release
<1>4. Phase[p] \in {"running", "tookOff"} /\ (pc'[p] = "ok" => Phase[p] = "tookOff")
  BY DEF Ends, Phase, Releasing
<1>5. Live' = Live /\ Dev' = Dev
  BY DEF Live, Dev, Present
<1>. QED BY <1>1, <1>2, <1>3, <1>4, <1>5 DEF Atomic!End

(* What is not seen at all.                                                *)
LEMMA Unseen ==
  ASSUME TypeOK, NEW p \in Procs, Run(p) \/ Crash(p), SamePhase(p), UNCHANGED ovl
  PROVE  UNCHANGED <<cmd, Phase, Live, Release>>
<1>1. cmd' = cmd
  BY Frame
<1>2. Phase'[p] = Phase[p] /\ Release'[p] = Release[p]
  BY DEF SamePhase, Phase, Release
<1>3. Phase' = Phase /\ Release' = Release
  BY <1>2, OthersView DEF Phase, Release
<1>. QED BY <1>1, <1>3 DEF Live

LEMMA DeviceSeen ==
  ASSUME IndInv, PlaceInv, NEW p \in Procs, UNCHANGED <<cmd, Phase, Live, Release>>,
         Activate(p) \/ UndoDevice(p) \/ Deactivate(p)
  PROVE  (\E a \in Atoms : Atomic!SetUp(a) \/ Atomic!TearDown(a)) \/ Dev' = Dev
<1>0. /\ TypeOK /\ LocalsOK(p) /\ OneMolecule
      /\ dm \in [Atoms -> Device \cup {NoDevice}]
  BY DEF IndInv, PlaceInv, TypeOK, KernelTypes
<1>1. CASE Activate(p)
  <2>. DEFINE a == Atom(p)
              d == [hash |-> Hash(p), loop |-> loop[p]]
  <2>1. a \in Atoms /\ d \in Device /\ Hash(p) \in Hashes
    BY <1>0, <1>1, AtomType DEF Activate, LocalsOK, Device, VeritySteps
  <2>2. ~Present(a) /\ dm' = [dm EXCEPT ![a] = d]
    BY <1>1 DEF Activate
  <2>3. Dev[a] = NoDevice
    BY <1>0, <2>1, <2>2, SeenDevice
  <2>4. d # NoDevice /\ d.hash = Hash(p)
    BY <2>1, NoneAssumption
  <2>. HIDE DEF a, d
  <2>5. Dev' = [Dev EXCEPT ![a] = Hash(p)]
    BY <1>0, <2>1, <2>2, <2>4 DEF Dev, Present
  <2>. QED BY <2>1, <2>3, <2>5 DEF Atomic!SetUp
<1>2. ASSUME NEW a \in Atoms, ~DevBusy(a), dm' = [dm EXCEPT ![a] = NoDevice]
      PROVE  Atomic!TearDown(a)
  <2>1. Dev' = [Dev EXCEPT ![a] = NoDevice]
    BY <1>0, <1>2 DEF Dev, Present
  <2>2. \A t \in Targets : Live[t] # Off => a \notin Live[t].pins
    BY <1>0, <1>2, Seen, NotBusy
  <2>. QED BY <2>1, <2>2 DEF Atomic!TearDown
<1>3. CASE UndoDevice(p)
  <2>1. Atom(p) \in Atoms
    BY <1>0, <1>3, AtomType DEF UndoDevice
  <2>2. CASE Present(Atom(p)) /\ ~DevBusy(Atom(p))
    BY <1>2, <1>3, <2>1, <2>2 DEF UndoDevice
  <2>3. CASE ~(Present(Atom(p)) /\ ~DevBusy(Atom(p)))
    <3>1. dm' = dm
      BY <1>3, <2>3 DEF UndoDevice
    <3>. QED BY <3>1 DEF Dev, Present
  <2>. QED BY <2>2, <2>3
<1>4. CASE Deactivate(p)
  <2>1. Lower(p) \in Atoms
    BY <1>0, <1>4 DEF Deactivate, LocalsOK, LowerSteps
  <2>. QED BY <1>2, <1>4, <2>1 DEF Deactivate
<1>. QED BY <1>1, <1>3, <1>4

-----------------------------------------------------------------------------
LEMMA RefinesInitially ==
  ASSUME Init
  PROVE  Atomic!AtomicInit
<1>1. /\ pc = [p \in Procs |-> "start"] /\ ovl = [t \in Targets |-> << >>]
      /\ dm = [a \in Atoms |-> NoDevice]
  BY DEF Init
<1>2. cmd \in [Procs -> MountCmd \cup UmountCmd]
  BY Initially DEF IndInv, TypeOK, InvocationTypes
<1>3. MountCmd \cup UmountCmd = Atomic!Commands
  BY DEF MountCmd, UmountCmd, Atomic!Commands
<1>. QED BY <1>1, <1>2, <1>3 DEF Atomic!AtomicInit, Phase, Live, Dev, Release, Present, Releasing

LEMMA RefinesStep ==
  ASSUME IndInv, PlaceInv, UmountInv, [Next]_vars
  PROVE  [Atomic!AtomicNext]_(Atomic!atomicVars)
<1>0. TypeOK
  BY DEF IndInv
<1>1. ASSUME NEW p \in Procs, Run(p) \/ Crash(p)
      PROVE  Atomic!AtomicNext \/ UNCHANGED Atomic!atomicVars
  <2>1. CASE MountOverlay(p)
    BY <2>1, MountSeen DEF Atomic!AtomicNext
  <2>2. CASE UmountTop(p)
    BY <2>2, UmountSeen DEF Atomic!AtomicNext
  <2>3. CASE ~MountOverlay(p) /\ ~UmountTop(p)
    <3>1. ovl' = ovl /\ (Ends(p) \/ SamePhase(p))
      BY <1>0, <1>1, <2>3, OverlayChanges, Kinds
    <3>2. CASE SamePhase(p)
      <4>1. UNCHANGED <<cmd, Phase, Live, Release>>
        BY <1>0, <1>1, <3>1, <3>2, Unseen
      <4>2. CASE dm' = dm
        BY <4>1, <4>2 DEF Dev, Present, Atomic!atomicVars
      <4>3. CASE Activate(p) \/ UndoDevice(p) \/ Deactivate(p)
        BY <4>1, <4>3, DeviceSeen DEF Atomic!AtomicNext, Atomic!atomicVars
      <4>. QED BY <1>1, <4>2, <4>3, DeviceChanges
    <3>3. CASE Ends(p)
      <4>1. dm' = dm
        <5>1. pc \in [Procs -> Steps]
          BY <1>0 DEF TypeOK, InvocationTypes
        <5>2. ~(Activate(p) \/ UndoDevice(p) \/ Deactivate(p))
          BY <3>3, <5>1 DEF Ends, Activate, UndoDevice, Deactivate, FailMount, Goto
        <5>. QED BY <1>1, <5>2, DeviceChanges
      <4>. QED BY <1>0, <1>1, <3>1, <3>3, <4>1, EndSeen DEF Atomic!AtomicNext
    <3>. QED BY <3>1, <3>2, <3>3
  <2>. QED BY <2>1, <2>2, <2>3
<1>2. CASE (\E a \in Atoms : CorruptionFound(a)) \/ UNCHANGED vars
  <2>1. UNCHANGED <<pc, cmd, lower, dm, ovl>>
    BY <1>2 DEF CorruptionFound, invocation, locals, vars
  <2>. QED BY <2>1 DEF Atomic!atomicVars, Phase, Live, Dev, Release, Present
<1>. QED BY <1>1, <1>2 DEF Next, Terminated

(* Each step of each invocation is to the users of the machine one of the  *)
(* steps of AtomicMolecule or none: a molecule appears in one step, and    *)
(* where there is none; it goes in one step; its layers' devices stay in   *)
(* between; an error is only reported by who did not change a target,      *)
(* unless it took a molecule off (molecule.go:203-310, 323-441).           *)
THEOREM Refinement ==
  ASSUME CommonLock, SerialMounts
  PROVE  Spec => ImplementsAtomic
<1>1. Init => Atomic!AtomicInit
  BY RefinesInitially
<1>2. IndInv /\ PlaceInv /\ UmountInv /\ [Next]_vars => [Atomic!AtomicNext]_(Atomic!atomicVars)
  BY RefinesStep
<1>. QED BY <1>1, <1>2, Invariance, PlaceInvariance, UmountInvariance, PTL DEF Spec, ImplementsAtomic, Atomic!AtomicSpec
=============================================================================

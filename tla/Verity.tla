------------------------------- MODULE Verity -------------------------------
(***************************************************************************)
(* pkg/verity: the steps of VerityHostMount, which puts one atom on its    *)
(* mountpoint through a dm-verity device, and of VerityUnmount, which      *)
(* takes an unused device down.  A device is named after the digest of its *)
(* blob alone, so every molecule of the machine that has the layer shares  *)
(* it: VerityHostMount reuses the device it finds.                         *)
(***************************************************************************)
EXTENDS World

(* VerityHostMount returns an error: mountUnderlyingAtoms passes it on and *)
(* the deferred function of Molecule.Mount runs.                           *)
FailMount(p) ==
  /\ Goto(p, "cleanup")
  /\ loop' = [loop EXCEPT ![p] = NoLoop]
  /\ UNCHANGED <<fd, idx, tries, lower>>

(* os.Stat(verityDevPath)                                                  *)
StatDevice(p) ==
  /\ pc[p] = "statDevice"
  /\ \/ /\ Goto(p, IF Present(Atom(p)) THEN "confirmHash" ELSE "attachLoop")
        /\ UNCHANGED locals
     \/ MayFail(p) /\ FailMount(p)
  /\ UNCHANGED <<files, kernel>>

AttachLoop(p) ==
  /\ pc[p] = "attachLoop"
  /\ \E l \in Loops :
       /\ loops[l] = NoAtom
       /\ loops' = [loops EXCEPT ![l] = Atom(p)]
       /\ loop' = [loop EXCEPT ![p] = l]
  /\ Goto(p, "activate")
  /\ UNCHANGED <<fd, idx, tries, lower, files, dm, corrupt, mnt, ovl>>

AttachLoopFails(p) ==
  /\ pc[p] = "attachLoop"
  /\ MayFail(p) \/ \A l \in Loops : loops[l] # NoAtom
  /\ FailMount(p)
  /\ UNCHANGED <<files, kernel>>

(* ActivateByVolumeKey succeeds whatever the data and the hash are: the    *)
(* device only reports corruption once a bad block was read.               *)
Activate(p) ==
  /\ pc[p] = "activate"
  /\ ~Present(Atom(p))
  /\ dm' = [dm EXCEPT ![Atom(p)] = [hash |-> Hash(p), loop |-> loop[p]]]
  /\ Goto(p, "confirmValidity")
  /\ UNCHANGED <<locals, files, corrupt, loops, mnt, ovl>>

(* Load and ActivateByVolumeKey detach the loop device when they fail;     *)
(* cryptsetup.Init, before them, returns with the loop device attached.    *)
ActivateFails(p) ==
  /\ pc[p] = "activate"
  /\ \/ /\ MayFail(p) \/ Present(Atom(p))
        /\ loops' = Detached(loop[p])
     \/ MayFail(p) /\ UNCHANGED loops
  /\ FailMount(p)
  /\ UNCHANGED <<files, dm, corrupt, mnt, ovl>>

(* A mistake, to show what the hash check is for: trust a device because   *)
(* it has the right name.                                                  *)
TrustExisting(p) ==
  /\ pc[p] = "confirmHash"
  /\ IF Present(Atom(p)) THEN Goto(p, "confirmValidity") /\ UNCHANGED locals
                         ELSE FailMount(p)
  /\ UNCHANGED <<files, kernel>>

(* ConfirmExistingVerityDeviceHash with rejectVerityFailure, on a device   *)
(* that somebody else set up.                                              *)
ConfirmHash(p) ==
  /\ pc[p] = "confirmHash"
  /\ \/ /\ Present(Atom(p)) /\ dm[Atom(p)].hash = Hash(p)
        /\ Goto(p, "confirmValidity") /\ UNCHANGED locals
     \/ /\ MayFail(p) \/ ~(Present(Atom(p)) /\ dm[Atom(p)].hash = Hash(p))
        /\ FailMount(p)
  /\ UNCHANGED <<files, kernel>>

(* ConfirmExistingVerityDeviceCurrentValidity.  Its failure leaves the     *)
(* device and its loop device in place.                                    *)
ConfirmValidity(p) ==
  /\ pc[p] = "confirmValidity"
  /\ \/ /\ Present(Atom(p)) /\ Atom(p) \notin corrupt
        /\ Goto(p, "mountDevice") /\ UNCHANGED locals
     \/ /\ MayFail(p) \/ ~(Present(Atom(p)) /\ Atom(p) \notin corrupt)
        /\ FailMount(p)
  /\ UNCHANGED <<files, kernel>>

(* The kernel refuses to mount a filesystem twice in a row on the same     *)
(* mountpoint, and reads the superblock, which a device with another root  *)
(* hash than that of its data cannot deliver.                              *)
MountableOn(a, m) ==
  /\ Present(a)
  /\ dm[a].hash = BlobHash[a]
  /\ ~DevOnTop(m, a)

MountDevice(p) ==
  LET a == Atom(p) m == Meta(p)
  IN /\ pc[p] = "mountDevice"
     /\ MountableOn(a, m)
     /\ mnt' = [mnt EXCEPT ![m][a] = Append(@, "dm")]
     /\ idx' = [idx EXCEPT ![p] = @ + 1]
     /\ loop' = [loop EXCEPT ![p] = NoLoop]
     /\ Goto(p, "nextAtom")
     /\ UNCHANGED <<fd, tries, lower, files, dm, corrupt, loops, ovl>>

(* A device that this invocation did not create is left alone.             *)
MountDeviceFails(p) ==
  LET a == Atom(p) m == Meta(p)
  IN /\ pc[p] = "mountDevice"
     /\ MayFail(p) \/ a \in Tampered \/ ~MountableOn(a, m)
     /\ IF loop[p] = NoLoop THEN FailMount(p)
                            ELSE Goto(p, "undoDevice") /\ UNCHANGED locals
     /\ UNCHANGED <<files, kernel>>

(* Deactivate(name), whose error is ignored, then loopDev.Detach().        *)
UndoDevice(p) ==
  LET a == Atom(p)
  IN /\ pc[p] = "undoDevice"
     /\ IF Present(a) /\ ~DevBusy(a)
        THEN /\ dm' = [dm EXCEPT ![a] = NoDevice]
             /\ corrupt' = corrupt \ {a}
             /\ loops' = IF dm[a].loop = loop[p]
                         THEN [loops EXCEPT ![loop[p]] = NoAtom]
                         ELSE Detached(loop[p])
        ELSE loops' = Detached(loop[p]) /\ UNCHANGED <<dm, corrupt>>
     /\ Goto(p, "undoLoop")
     /\ UNCHANGED <<locals, files, mnt, ovl>>

(* loopDevNeedsClosedOnErr: loopDev.Detach() once more.                    *)
UndoLoop(p) ==
  /\ pc[p] = "undoLoop"
  /\ loops' = Detached(loop[p])
  /\ FailMount(p)
  /\ UNCHANGED <<files, dm, corrupt, mnt, ovl>>

-----------------------------------------------------------------------------
(* VerityUnmount, from the loop in UmountWithMetadir over lower[p].  An    *)
(* error ends that invocation.                                             *)

Lower(p) == lower[p][idx[p]]

(* Mistakes: no limit; a busy device is looked for anew.                   *)
DeactivateForever(p) ==
  /\ pc[p] = "deactivate"
  /\ MayFail(p) \/ ~Present(Lower(p)) \/ DevBusy(Lower(p))
  /\ UNCHANGED vars

DeactivateAnew(p) ==
  /\ pc[p] = "deactivate"
  /\ MayFail(p) \/ ~Present(Lower(p)) \/ DevBusy(Lower(p))
  /\ Goto(p, "checkUsed")
  /\ UNCHANGED <<locals, files, kernel>>

(* retryIfBusy around Deactivate: all its errors are tried again, since a  *)
(* cryptsetup.Error is no syscall.Errno.                                   *)
DeactivateFails(p) ==
  /\ pc[p] = "deactivate"
  /\ MayFail(p) \/ ~Present(Lower(p)) \/ DevBusy(Lower(p))
  /\ IF tries[p] + 1 < MaxRetries
     THEN /\ tries' = [tries EXCEPT ![p] = @ + 1]
          /\ UNCHANGED <<pc, cmd, fd, idx, loop, lower>>
     ELSE Exit(p, "err")
  /\ UNCHANGED <<files, kernel>>

Deactivate(p) ==
  LET a == Lower(p)
  IN /\ pc[p] = "deactivate"
     /\ Present(a) /\ ~DevBusy(a)
     /\ dm' = [dm EXCEPT ![a] = NoDevice]
     /\ corrupt' = corrupt \ {a}
     /\ tries' = [tries EXCEPT ![p] = 0]
     /\ Goto(p, "detach")
     /\ UNCHANGED <<fd, idx, loop, lower, files, loops, mnt, ovl>>

Detach(p) ==
  /\ pc[p] = "detach"
  /\ \/ /\ loops[loop[p]] # NoAtom
        /\ loops' = Detached(loop[p])
        /\ idx' = [idx EXCEPT ![p] = @ + 1]
        /\ loop' = [loop EXCEPT ![p] = NoLoop]
        /\ Goto(p, "nextLower")
        /\ UNCHANGED <<fd, tries, lower>>
     \/ /\ MayFail(p) \/ loops[loop[p]] = NoAtom
        /\ Exit(p, "err")
        /\ UNCHANGED loops
  /\ UNCHANGED <<files, dm, corrupt, mnt, ovl>>
=============================================================================

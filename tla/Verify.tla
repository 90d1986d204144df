------------------------------- MODULE Verify -------------------------------
(***************************************************************************)
(* cmd/atomfs/verify.go: `atomfs verify` of one target, while molecules    *)
(* are mounted and unmounted and devices meet bad blocks.  It takes no     *)
(* lock: it looks for the target in the mount table, reads the mount table *)
(* again, and then asks the kernel for the status of each device it read.  *)
(***************************************************************************)
EXTENDS Molecule

CONSTANT Erofs   \* the atoms that are erofs and not squashfs images

ASSUME ErofsAssumption == Erofs \subseteq Atoms

VARIABLES
  vpc,      \* where the verify is
  vt,       \* its target
  todo,     \* the mounts whose status it has still to read
  allOK,    \* no status read so far was a bad one
  (* history, which verify does not see *)
  known,    \* the devices corrupt when it began, and ever since
  steady    \* the overlays on the target are those it began with

vvars == <<vars, vpc, vt, todo, allOK, known, steady>>

-----------------------------------------------------------------------------
(* common.IsMountpoint(mountpoint), the first reading of the mount table.  *)
LookForTarget ==
  /\ vpc = "isMountpoint"
  /\ vpc' = IF ovl[vt] = << >> THEN "err" ELSE "parseMounts"
  /\ known' = corrupt
  /\ UNCHANGED <<vars, vt, todo, allOK, steady>>

(* A mistake: what is mounted below any metadata directory is listed.      *)
ListedEverywhere(m) ==
  UNION {{x \in (Atoms \ Erofs) \X {"dm", "plain"} : x[2] \in ToSet(mnt[n][x[1]])} :
           n \in MetaDirs}

(* The mounts below the metadata directory that can be of type squashfs: a *)
(* device, a loop device, or a FUSE server.                                *)
Listed(m) ==
  {x \in (Atoms \ Erofs) \X {"dm", "plain"} : x[2] \in ToSet(mnt[m][x[1]])}

(* mount.ParseMounts.  A target that was unmounted meanwhile passes the    *)
(* check of its type.  FUSE mounts are not counted, and a molecule without *)
(* a counted mount is an error.                                            *)
ParseMounts ==
  /\ vpc = "parseMounts"
  /\ \E fuse \in SUBSET (Listed(MetaOf[vt]) \cap (Atoms \X {"plain"})) :
       todo' = Listed(MetaOf[vt]) \ fuse
  /\ vpc' = IF todo' = {} THEN "err" ELSE "confirm"
  /\ UNCHANGED <<vars, vt, allOK, known, steady>>

(* ConfirmExistingVerityDeviceCurrentValidity(m.Source): there is no such  *)
(* status of a loop device, nor of a device that is gone.                  *)
Confirmed(x) == x[2] = "dm" /\ Present(x[1]) /\ x[1] \notin corrupt

(* A mistake: the last status read decides.                                *)
ConfirmLast ==
  /\ vpc = "confirm"
  /\ \E x \in todo : allOK' = Confirmed(x) /\ todo' = todo \ {x}
  /\ UNCHANGED <<vars, vpc, vt, known, steady>>

ConfirmOne ==
  /\ vpc = "confirm"
  /\ \E x \in todo : allOK' = (allOK /\ Confirmed(x)) /\ todo' = todo \ {x}
  /\ UNCHANGED <<vars, vpc, vt, known, steady>>

Verdict ==
  /\ vpc = "confirm" /\ todo = {}
  /\ vpc' = IF allOK THEN "ok" ELSE "corrupt"
  /\ UNCHANGED <<vars, vt, todo, allOK, known, steady>>

VerifyStep == LookForTarget \/ ParseMounts \/ ConfirmOne \/ Verdict

-----------------------------------------------------------------------------
(* The other invocations, of which verify only keeps history.              *)
Beside ==
  /\ known' = known \cap corrupt'
  /\ steady' = (vpc = "isMountpoint" \/ (steady /\ ovl'[vt] = ovl[vt]))
  /\ UNCHANGED <<vpc, vt, todo, allOK>>

VerifyInit ==
  /\ Init
  /\ vpc = "isMountpoint" /\ vt \in Targets
  /\ todo = {} /\ allOK = TRUE
  /\ known = {} /\ steady = TRUE

VerifyNext == VerifyStep \/ (Next /\ Beside)

(* As in FairSpec of Molecule; nothing obliges anyone to run verify.       *)
VerifySpec ==
  /\ VerifyInit /\ [][VerifyNext]_vvars
  /\ \A p \in Procs : WF_vvars(Run(p) /\ Beside)

-----------------------------------------------------------------------------
(* The devices that the molecule on the target is read through.            *)
Watched == Last(ovl[vt]).pins

(* "check atomfs image for dm-verity errors" (verify.go:18): a molecule    *)
(* that stays mounted and is reported as good had no squashfs layer that   *)
(* the kernel knew to be corrupt when verify began.                        *)
VerifyFindsCorruption ==
  vpc = "ok" /\ steady => Watched \cap known \subseteq Erofs

(* A molecule that was mounted without --allow-missing-verity and stays    *)
(* mounted is complained about for a corrupt layer of its own only,        *)
(* whatever happens to other molecules, or for having erofs layers only    *)
(* ("no applicable mounts found", verify.go:98).                           *)
NoFalseAlarm ==
  vpc \in {"corrupt", "err"} /\ steady /\ ovl[vt] # << >> =>
    \/ Last(ovl[vt]).allow
    \/ Watched \cap corrupt # {}
    \/ Watched \subseteq Erofs
-----------------------------------------------------------------------------
(* An inductive invariant, on top of those of Molecule, that implies both. *)

VerifyTypes ==
  /\ vpc \in {"isMountpoint", "parseMounts", "confirm", "ok", "corrupt", "err"}
  /\ vt \in Targets /\ allOK \in BOOLEAN /\ steady \in BOOLEAN
  /\ todo \subseteq (Atoms \ Erofs) \X {"dm", "plain"}
  /\ known \subseteq corrupt

(* While the molecule stays, a device that was bad from the beginning is   *)
(* still to be read or has been complained of, only devices of the         *)
(* molecule are read, and a complaint has its cause among them.            *)
ReadingOK ==
  /\ vpc \in {"isMountpoint", "parseMounts"} => allOK
  /\ vpc = "isMountpoint" => steady
  /\ steady /\ vpc \in {"parseMounts", "confirm"} =>
       ovl[vt] # << >>
  /\ steady /\ vpc = "confirm" =>
       \A a \in (Watched \cap known) \ Erofs : <<a, "dm">> \in todo \/ ~allOK
  /\ steady /\ vpc = "confirm" /\ ~Last(ovl[vt]).allow =>
       /\ todo \subseteq Watched \X {"dm"}
       /\ allOK \/ Watched \cap corrupt # {}

VerifyInv ==
  OnlyLayers /\ VerifyTypes /\ ReadingOK /\ VerifyFindsCorruption /\ NoFalseAlarm
=============================================================================

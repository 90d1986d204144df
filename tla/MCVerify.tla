------------------------------ MODULE MCVerify ------------------------------
(* A small instance of Verify for TLC.                                     *)
EXTENDS MCMolecule, Verify

(* The blob of app is corrupt; the image both has a layer of each kind.    *)
VerifyCmds ==
  p1 :> {Mount("/a/b", "web", "rw"), Mount("/a/b", "both", "ro"), MountAllow("/a/b", "plain")} @@
  p2 :> {Mount("/c", "web", "ro"), Mount("/a-b", "half", "ro")} @@
  p3 :> {Umount("/a/b"), Umount("/c")}
=============================================================================

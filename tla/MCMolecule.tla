----------------------------- MODULE MCMolecule -----------------------------
(***************************************************************************)
(* Small instances of Molecule for TLC.  Layers, hashes and paths are      *)
(* strings; loop devices are model values, and interchangeable.            *)
(***************************************************************************)
EXTENDS MoleculeRefinement

CONSTANTS p1, p2, p3, p4, L1, L2, L3

Mount(t, i, over) == [op |-> "mount", target |-> t, image |-> i,
                      allow |-> FALSE, over |-> over]
MountAllow(t, i)  == [Mount(t, i, "ro") EXCEPT !.allow = TRUE]
Umount(t) == [op |-> "umount", target |-> t]

(* "/a/b" and "/a-b" have the same metadata directory                      *)
MCTargets  == {"/a/b", "/a-b", "/c"}
MCMetaDirs == {"a-b", "c"}
MCMetaOf   == "/a/b" :> "a-b" @@ "/a-b" :> "a-b" @@ "/c" :> "c"

OneNamespace  == [m \in MCMetaDirs |-> "ns1"]
TwoNamespaces == "a-b" :> "ns1" @@ "c" :> "ns2"

OneLock     == [p \in Procs |-> "/tmp"]
NoCommonLock == [p \in Procs |-> NoDir]

(* web and db share their base layer; evil annotates the base layer with   *)
(* another hash than the blob has; twin has one layer twice; plain has no  *)
(* verity data, bare has verity data that its manifest does not mention,   *)
(* fake a root hash without verity data, half a root hash for its top      *)
(* layer only, both an erofs and a squashfs layer, and odd a layer that is *)
(* a tar archive.                                                          *)
MCAtoms  == {"base", "app", "ero", "raw", "tar"}
MCImages == {"web", "base", "evil", "twin", "plain", "bare", "fake", "half", "both", "odd"}
MCLayers ==
  "web" :> <<"app", "base">> @@ "base" :> <<"base">> @@
  "evil" :> <<"base">> @@ "twin" :> <<"base", "base">> @@
  "plain" :> <<"raw">> @@ "bare" :> <<"base">> @@ "fake" :> <<"raw">> @@
  "half" :> <<"app", "base">> @@ "both" :> <<"ero", "app">> @@ "odd" :> <<"tar">>
MCRootHash ==
  [i \in MCImages |-> [a \in MCAtoms |->
     CASE i \in {"plain", "bare", "odd"} \/ (i = "half" /\ a = "base") -> NoHash
       [] i = "evil" \/ a = "raw" -> "h2"
       [] OTHER -> "h1"]]
MCBlobHash == [a \in MCAtoms |-> IF a \in {"raw", "tar"} THEN NoHash ELSE "h1"]

Symmetric == Permutations(Loops)

-----------------------------------------------------------------------------
(* share: four callers, one lock, nothing fails                            *)
ShareCmds ==
  p1 :> {Mount("/a/b", "web", "rw"), Mount("/a/b", "web", "ro")} @@
  p2 :> {Mount("/c", "web", "ro"), Mount("/c", "base", "rw")} @@
  p3 :> {Umount("/a/b"), Mount("/a-b", "base", "rw")} @@
  p4 :> {Umount("/c"), Umount("/a/b"), Mount("/a/b", "base", "rw")}

(* faults: every step may fail, processes are killed, blobs are corrupt,   *)
(* p3 is root of a user namespace only                                     *)
AllSteps == Critical \cup BeforeLock
FaultCmds ==
  p1 :> {Mount("/a/b", "web", "rw"), Mount("/a/b", "twin", "ro"), MountAllow("/a/b", "bare")} @@
  p2 :> {Mount("/c", "evil", "stray"), Mount("/c", "base", "ro"), Mount("/c", "fake", "ro")} @@
  p3 :> {Umount("/a/b"), MountAllow("/a-b", "plain"), Mount("/a-b", "base", "ro"),
         MountAllow("/a-b", "odd")} @@
  p4 :> {Umount("/c"), Mount("/c", "base", "rw")}

(* One command for each caller, for the runs that show a disagreement.     *)
HalfCmds  == p1 :> {Mount("/a/b", "half", "ro")} @@ p2 :> {Umount("/a/b")}
RaceCmds  == p1 :> {Mount("/a/b", "web", "ro")} @@ p2 :> {Mount("/a/b", "base", "ro")}
TwoNsCmds == p1 :> {Mount("/a/b", "web", "ro")} @@ p2 :> {Mount("/c", "base", "ro")} @@
             p3 :> {Umount("/a/b")}
=============================================================================

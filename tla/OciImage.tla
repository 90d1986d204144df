------------------------------ MODULE OciImage ------------------------------
(***************************************************************************)
(* pkg/oci and pkg/molecule/oci.go: publishers put the layers of an image  *)
(* into an OCI layout and give it a tag with UpdateImageConfig, readers    *)
(* make a molecule of the tag with BuildMoleculeFromOCI, all at once.      *)
(*                                                                         *)
(* Blobs are content addressed: the digest of a blob is its content.  The  *)
(* layout itself is that of umoci.                                         *)
(***************************************************************************)
EXTENDS MakeImage

CONSTANTS
  Publishers,
  AddLayers,    \* AddLayers[u]: the builders whose blobs u adds, in order
  Readers,
  NoManifest

ASSUME OciAssumption == AddLayers \in [Publishers -> Seq(Builders)]

VARIABLES
  blobs,    \* layers, configurations and manifests in the layout
  tag,      \* the manifest the tag refers to, or NoManifest
  ppc,      \* ppc[u]: the step of publisher u
  man,      \* man[u]: the manifest u works on
  rpc,      \* rpc[r]: the step of reader r
  seen,     \* seen[r]: the manifest r resolved the tag to
  atoms     \* atoms[r]: the atoms of r's molecule

ociVars == <<blobs, tag, ppc, man, rpc, seen, atoms>>
imageVars == <<exclude, include, named, bpc, list, img, blob, root, temp, clash,
               blobs, tag, ppc, man, rpc, seen, atoms>>

(* A descriptor of a layer, with the annotation of its root hash.          *)
Descriptor(b) == [kind |-> Kind[b], digest |-> blob[b], root |-> root[b]]

(* A manifest refers to a configuration; u's is called after u.            *)
EmptyManifest == [layers |-> << >>, config |-> NoName]

PGoto(u, step) == ppc' = [ppc EXCEPT ![u] = step]

(* LookupManifest and LookupConfig give the image to change, or nothing    *)
(* for a new one.                                                          *)
LookupManifest(u) ==
  /\ ppc[u] = "start"
  /\ man' = [man EXCEPT ![u] = IF tag = NoManifest THEN EmptyManifest ELSE tag]
  /\ IF tag = NoManifest \/ {tag, tag.config} \subseteq blobs
     THEN PGoto(u, "layers") ELSE PGoto(u, "err")
  /\ UNCHANGED <<blobs, tag, rpc, seen, atoms>>

(* The caller puts the new layers into the layout.                         *)
PutLayers(u) ==
  LET new == AddLayers[u]
  IN /\ ppc[u] = "layers"
     /\ \A i \in DOMAIN new : bpc[new[i]] = "ok"
     /\ blobs' = blobs \cup {blob[new[i]] : i \in DOMAIN new}
     /\ man' = [man EXCEPT ![u].layers = @ \o [i \in DOMAIN new |-> Descriptor(new[i])]]
     /\ PGoto(u, "putConfig")
     /\ UNCHANGED <<tag, rpc, seen, atoms>>

(* UpdateImageConfig.                                                      *)
PutConfig(u) ==
  /\ ppc[u] = "putConfig"
  /\ blobs' = blobs \cup {u}
  /\ man' = [man EXCEPT ![u].config = u]
  /\ PGoto(u, "putManifest")
  /\ UNCHANGED <<tag, rpc, seen, atoms>>

(* A mistake: the reference is updated before the manifest is there.       *)
UpdateFirst(u) ==
  /\ ppc[u] = "putManifest"
  /\ tag' = man[u]
  /\ PGoto(u, "putLate")
  /\ UNCHANGED <<blobs, man, rpc, seen, atoms>>

PutManifest(u) ==
  /\ ppc[u] = "putManifest"
  /\ blobs' = blobs \cup {man[u]}
  /\ PGoto(u, "updateReference")
  /\ UNCHANGED <<tag, man, rpc, seen, atoms>>

UpdateReference(u) ==
  /\ ppc[u] = "updateReference"
  /\ tag' = man[u]
  /\ PGoto(u, "ok")
  /\ UNCHANGED <<blobs, man, rpc, seen, atoms>>

(* An error of umoci, or the end of the process.                           *)
PublishFails(u) ==
  /\ ppc[u] \notin {"ok", "err"}
  /\ PGoto(u, "err")
  /\ UNCHANGED <<blobs, tag, man, rpc, seen, atoms>>

-----------------------------------------------------------------------------
(* BuildMoleculeFromOCI.                                                   *)

(* A mistake: the loop begins one below the middle.                        *)
ReversedShort(s) ==
  LET swapped[k \in 0 .. Len(s) \div 2] ==
        IF k = (Len(s) - 1) \div 2 THEN s
        ELSE LET t == swapped[k + 1]
             IN [t EXCEPT ![k + 1] = t[Len(s) - k], ![Len(s) - k] = t[k + 1]]
  IN IF s = << >> THEN s ELSE swapped[0]

(* for i := len(atoms)/2 - 1; i >= 0; i-- { swap i and len(atoms)-1-i };   *)
(* swapped[k] is the slice when i = k has been done.                       *)
Reversed(s) ==
  LET swapped[k \in 0 .. Len(s) \div 2] ==
        IF k = Len(s) \div 2 THEN s
        ELSE LET t == swapped[k + 1]
             IN [t EXCEPT ![k + 1] = t[Len(s) - k], ![Len(s) - k] = t[k + 1]]
  IN swapped[0]

ResolveReference(r) ==
  /\ rpc[r] = "start"
  /\ seen' = [seen EXCEPT ![r] = tag]
  /\ rpc' = [rpc EXCEPT ![r] = IF tag = NoManifest THEN "err" ELSE "read"]
  /\ UNCHANGED <<blobs, tag, ppc, man, atoms>>

FromDescriptor(r) ==
  /\ rpc[r] = "read"
  /\ IF seen[r] \in blobs
     THEN /\ rpc' = [rpc EXCEPT ![r] = "built"]
          /\ atoms' = [atoms EXCEPT ![r] = Reversed(seen[r].layers)]
     ELSE rpc' = [rpc EXCEPT ![r] = "err"] /\ UNCHANGED atoms
  /\ UNCHANGED <<blobs, tag, ppc, man, seen>>

OciInit ==
  /\ blobs = {} /\ tag = NoManifest
  /\ ppc = [u \in Publishers |-> "start"]
  /\ man = [u \in Publishers |-> EmptyManifest]
  /\ rpc = [r \in Readers |-> "start"]
  /\ seen = [r \in Readers |-> NoManifest]
  /\ atoms = [r \in Readers |-> << >>]

Publish(u) ==
  \/ LookupManifest(u) \/ PutLayers(u) \/ PutConfig(u) \/ PutManifest(u)
  \/ UpdateReference(u) \/ PublishFails(u)

Read(r) == ResolveReference(r) \/ FromDescriptor(r)

OciNext ==
  /\ \/ \E u \in Publishers : Publish(u)
     \/ \E r \in Readers : Read(r)
  /\ UNCHANGED <<excludeVars, buildVars>>

ImageInit == BuildInit /\ OciInit
ImageNext == (BuildNext /\ UNCHANGED ociVars) \/ OciNext
ImageSpec == ImageInit /\ [][ImageNext]_imageVars

-----------------------------------------------------------------------------
(* The tag never refers to something that is not there: whatever publisher *)
(* fails or is killed where, its manifest, its configuration and its       *)
(* layers are in the layout (oci.go:50-72).                                *)
TagResolves ==
  tag # NoManifest =>
    /\ {tag, tag.config} \subseteq blobs
    /\ \A i \in DOMAIN tag.layers : tag.layers[i].digest \in blobs

(* A molecule has the layers of a manifest the tag referred to, "the first *)
(* layer is the top most" (oci.go:55-60), and each can be mounted by root  *)
(* of the host as its annotation wants it, unless it is what a call made   *)
(* whose name was drawn twice.                                             *)
MoleculeTopFirst ==
  \A r \in Readers : rpc[r] = "built" =>
    /\ atoms[r] = Reverse(seen[r].layers)
    /\ \A i \in DOMAIN atoms[r] :
         LET a == atoms[r][i]
         IN \/ HostMount(a.digest, a.kind, a.root) \in {"device", "loop"}
            \/ \E b \in clash : bpc[b] = "ok" /\ a = Descriptor(b)

-----------------------------------------------------------------------------
(* The invariant TagResolves follows from: a publisher refers to nothing   *)
(* it has not put or found in the layout.                                  *)
LayersIn(m) == \A i \in DOMAIN m.layers : m.layers[i].digest \in blobs

PublishInv ==
  /\ ppc \in [Publishers -> {"start", "layers", "putConfig", "putManifest",
                             "updateReference", "ok", "err"}]
  /\ DOMAIN man = Publishers
  /\ tag # NoManifest => {tag, tag.config} \subseteq blobs /\ LayersIn(tag)
  /\ \A u \in Publishers :
       /\ ppc[u] \notin {"start", "err"} => LayersIn(man[u])
       /\ ppc[u] \in {"putManifest", "updateReference"} => man[u].config \in blobs
       /\ ppc[u] = "updateReference" => man[u] \in blobs
=============================================================================

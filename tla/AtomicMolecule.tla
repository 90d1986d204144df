--------------------------- MODULE AtomicMolecule ---------------------------
(***************************************************************************)
(* What pkg/molecule promises to the users of a machine: a target carries  *)
(* a molecule or none; an invocation of Mount or Umount changes that in    *)
(* one step or not at all, whatever happens to it and to others; and a     *)
(* device is there, with its root hash, as long as a molecule is read      *)
(* through it.  Metadata directories appear only as what excludes two      *)
(* molecules from one place; locks, mounts of single layers, loop devices  *)
(* and retries not at all.                                                 *)
(***************************************************************************)
EXTENDS Sequences

CONSTANTS Procs, Targets, MetaDirs, Atoms, Images, Hashes,
          MetaOf, Layers, RootHash, NoHash, NoDevice, Off, Stray

VARIABLES
  command,   \* command[p]: what p was asked for
  phase,     \* phase[p]: "running", "tookOff", or how p ended
  live,      \* live[t]: the molecule on target t, or Off
  dev,       \* dev[a]: the root hash of the device of atom a, or NoDevice
  release    \* release[p]: layers of the molecule that Umount p took off

atomicVars == <<command, phase, live, dev, release>>

Commands == UNION {[op : {"mount"}, target : Targets, image : Images,
                    allow : BOOLEAN, over : {"ro", "rw", "stray"}],
                   [op : {"umount"}, target : Targets]}

LayersOf(i) == {Layers[i][k] : k \in DOMAIN Layers[i]}

(* The lower directories of the overlay of o.                              *)
LowerOf(o) ==
  IF o.over = "stray" THEN <<Stray>> \o Layers[o.image] ELSE Layers[o.image]

AtomicInit ==
  /\ command \in [Procs -> Commands]
  /\ phase = [p \in Procs |-> "running"]
  /\ live = [t \in Targets |-> Off]
  /\ dev = [a \in Atoms |-> NoDevice]
  /\ release = [p \in Procs |-> << >>]

(* Mount succeeds where no molecule has the metadata directory; what it    *)
(* mounts without --allow-missing-verity is read through devices with the  *)
(* root hashes of the manifest; with it, layers may be missing.            *)
MountTakesEffect(p) ==
  LET c == command[p]
  IN /\ c.op = "mount" /\ phase[p] = "running"
     /\ \A u \in Targets : MetaOf[u] = MetaOf[c.target] => live[u] = Off
     /\ phase' = [phase EXCEPT ![p] = "ok"]
     /\ \E pins \in SUBSET {a \in Atoms : dev[a] # NoDevice} :
          /\ ~c.allow => \A a \in LayersOf(c.image) :
               a \in pins /\ dev[a] = RootHash[c.image][a]
          /\ \E gaps \in SUBSET LayersOf(c.image) :
               /\ gaps # {} => c.allow
               /\ live' = [live EXCEPT ![c.target] =
                    [image |-> c.image, allow |-> c.allow, over |-> c.over,
                     pins |-> pins, gaps |-> gaps]]
     /\ UNCHANGED <<command, dev, release>>

(* Umount takes the molecule off in one step, and knows from then on what  *)
(* it has to release.                                                      *)
UmountTakesEffect(p) ==
  LET t == command[p].target
  IN /\ command[p].op = "umount" /\ phase[p] = "running"
     /\ live[t] # Off
     /\ live' = [live EXCEPT ![t] = Off]
     /\ release' = [release EXCEPT ![p] = LowerOf(live[t])]
     /\ phase' = [phase EXCEPT ![p] = "tookOff"]
     /\ UNCHANGED <<command, dev>>

(* An invocation ends: with success only a Umount that took its molecule   *)
(* off (a Mount succeeds in MountTakesEffect), with an error or by force   *)
(* any, and then without changing what is on a target.                     *)
End(p) ==
  /\ \/ phase[p] = "tookOff" /\ phase' = [phase EXCEPT ![p] = "ok"]
     \/ /\ phase[p] \in {"running", "tookOff"}
        /\ \E r \in {"err", "dead"} : phase' = [phase EXCEPT ![p] = r]
  /\ release' = [release EXCEPT ![p] = << >>]
  /\ UNCHANGED <<command, live, dev>>

SetUp(a) ==
  /\ dev[a] = NoDevice
  /\ \E h \in Hashes : dev' = [dev EXCEPT ![a] = h]
  /\ UNCHANGED <<command, phase, live, release>>

(* A device is taken down only when no molecule is read through it.        *)
TearDown(a) ==
  /\ \A t \in Targets : live[t] # Off => a \notin live[t].pins
  /\ dev' = [dev EXCEPT ![a] = NoDevice]
  /\ UNCHANGED <<command, phase, live, release>>

AtomicNext ==
  \/ \E p \in Procs : MountTakesEffect(p) \/ UmountTakesEffect(p) \/ End(p)
  \/ \E a \in Atoms : SetUp(a) \/ TearDown(a)

AtomicSpec == AtomicInit /\ [][AtomicNext]_atomicVars
=============================================================================

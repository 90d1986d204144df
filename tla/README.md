# Formal models of atomfs

atomfs mounts OCI images whose layers ("atoms") are squashfs or erofs files.  A
mounted image ("molecule") is an overlay of atoms, each of which is mounted
read-only through dm-verity when the caller is root of the host, and through FUSE
otherwise.  This directory holds TLA+ models of the parts of atomfs in which several
actors and the kernel meet, the TLC configurations that check them, and proofs that
TLAPS checks.

Paths below are relative to the repository: `molecule.go` is
`pkg/molecule/molecule.go`, `verity.go` is `pkg/verity/verity.go`, and `squashfs.go`
and `erofs.go` are those of `pkg/squashfs` and `pkg/erofs`.

## The system

| component | state it keeps | operations | interacts with |
|---|---|---|---|
| commands (`cmd/atomfs`) | none | `mount`, `umount`, `verify` | the molecule and the mount table; every command is a process of its own |
| molecule (`molecule.go`) | metadata directory `/run/atomfs/meta/<ns>/<target>` (mountpoints of the atoms, `config.json`, upper directory), advisory lock file | `Mount`, `UmountWithMetadir` | other invocations through the lock, the metadata directories, the mounts and the devices |
| verity (`verity.go`) | device-mapper devices named after a blob's digest, loop devices, both of the whole machine | `VerityHostMount`, `VerityUnmount`, `Confirm...Hash`, `Confirm...Validity`, `AppendVerityData` | the kernel; devices are shared by all molecules that have the layer |
| mount table (`pkg/mount`) | none; reads `/proc/self/mountinfo` | `ParseMounts`, `FindMount`, `GetOverlayDirs` | sees one mount namespace |
| guest mount (`common/mount.go`, `squashFuse`, `erofsFuse`) | a child process, a named pipe | `GuestMount` | two goroutines and the FUSE server |
| extraction policy (`ExtractSingle{Squash,Erofs}Policy`) | `initialized`, `Extractor`, `Excuses`, mutexes, directories | `ExtractSingle...` | goroutines through the policy, other processes through the directories |
| image building (`MakeSquashfs`, `MakeErofs`) | temporary files | make an image, append verity data | `mksquashfs`, `mkfs.erofs`, libcryptsetup |
| superblocks | none | where the verity data of a blob begins | `VerityHostMount` |
| excluded paths (`common/exclude.go`) | two collections of paths | `AddExclude`, `AddInclude`, `String` | image building |
| OCI (`pkg/oci`, `molecule/oci.go`) | an OCI layout | look up, update, build a molecule | umoci |
| helpers (`common/utils.go`) | none | target to directory name, `AmHostRoot`, `Which` | all of the above |

What is hard in it, and what correctness means:

* **Molecule and verity.**  Any number of processes mount and unmount at once; they
  share devices, and sometimes directories; every system call may fail half way
  through; processes are killed.  Correct: what is mounted as verified is and stays
  verified; a device does not go away under somebody who has found it; a live
  molecule keeps its atoms, its metadata directory and its upper directory; when
  nothing fails nothing leaks; every invocation ends.
* **Guest mount.**  The server may mount, complain, hang or die at any moment, also
  between two looks of the caller.  Correct: success means it was mounted, after an error
  no server serves the directory and none will, and there is an answer.
* **Extraction policy.**  Double-checked locking around a decision all goroutines of a
  process use.  Correct: one decision, final, and there when it is declared; success
  means a complete directory; calls return.
* **Verify.**  It reads the mount table and then device after device, without a lock,
  while others mount and unmount.  Correct: a molecule that stays is not reported as
  good when one of its devices was corrupt, nor as bad for what happens to another.
* **Image building and OCI.**  Builders share a directory for temporary files and take
  names in two steps; a tag is moved while others resolve it; where the verity data is
  was decided by the length of a file when it was written and is computed from a
  superblock when it is read; what is excluded depends on the order of the calls.
  Correct: a blob has the tree it was made of, without what was excluded and with all
  that was included, and can be mounted with the root hash it was returned with; no
  temporary file stays; a tag never dangles; a molecule has its layers topmost first.

## Modules

| module | models |
|---|---|
| `World` | the constants (images, layers, hashes, callers, faults), the state of the file system and the kernel, the types, `Init` |
| `Verity` | `pkg/verity` and the parts of `common/mount.go` it is used through: the steps that put one atom on its mountpoint and take a device down |
| `Molecule` | `Molecule.Mount` and `UmountWithMetadir`, composed with `Verity`, the properties and the inductive invariants |
| `AtomicMolecule` | what `Molecule` promises: a molecule goes on and off a target in one step |
| `MoleculeRefinement` | the refinement mapping from `Molecule` to `AtomicMolecule` |
| `MCMolecule` | small instances of `Molecule` and of the refinement |
| `MCShare` | the one of them in which nothing fails, with what the theorems about it assume |
| `MoleculeProofs` | local variables, progress, the lock, devices and verified mounts |
| `PlaceProofs` | where molecules are, and what is left of failed invocations |
| `UmountProofs` | what a successful Umount has done; that nothing leaks when nothing fails |
| `RefinementProofs` | `Molecule` implements `AtomicMolecule` |
| `Verify` | `atomfs verify` beside the invocations of `Molecule` |
| `MCVerify` | a small instance of `Verify` |
| `VerifyProofs` | theorems about `Verify` |
| `FuseMount` | `GuestMount`, `squashFuse`, `erofsFuse`: caller, goroutines, child, clock |
| `FuseProofs` | theorems about `FuseMount` |
| `ExtractPolicy` | the extraction of one image to one directory by goroutines of several processes |
| `MCExtract` | small instances of `ExtractPolicy` |
| `ExtractPolicyProofs` | theorems about `ExtractPolicy` |
| `ExcludePaths` | `common/exclude.go`, called by a walk of a tree |
| `MakeImage` | `MakeSquashfs`, `MakeErofs`, `AppendVerityData`, the superblocks and `verityDataLocation`, on top of `ExcludePaths` |
| `OciImage` | `pkg/oci` and `BuildMoleculeFromOCI`, on top of `MakeImage` |
| `MCImage` | a small instance of `OciImage` |
| `ImageProofs` | theorems about these three |

### World, Verity, Molecule

An invocation is one process that runs one command.  `pc[p]` is the step it is about to
take, one for each system call, or each function without a call another process could
notice.  `cmd[p]` is what it was asked for; `fd`, `idx`, `loop`, `tries` and `lower` are
local variables of the Go functions, and are reset on return.  The rest of the state is
shared: `metadirs` (which metadata directories exist), `upper` (which hold the upper
directory of a writeable overlay), `gen` (tells a lock file that was deleted while open
from its successor of the same name), `dm` (the device of an atom: its root hash and
loop device), `corrupt` (devices that have met a bad block), `loops`, `mnt` (what is
mounted at `<metadata directory>/mounts/<atom>`, a stack, because a mountpoint can be
mounted on again), and `ovl` (the overlays stacked on a target, with the devices whose
superblocks they hold).

The order of the checks, the early returns and the deferred functions are those of the
code.  In particular

* the metadata directory is looked for before the lock is taken, and the lock is that
  of `$TMPDIR/.atomfs-lock`, or else of a file in the metadata directory, which
  disappears with the directory;
* the deferred cleanup of a failed `Mount` removes the metadata directory, which a
  mounted atom survives, and unmounts nothing, because the function that would is never
  called (molecule.go:139, 242-251);
* an existing device is trusted for its name once its root hash and status are
  confirmed; a device that fails the status check right after it was set up here stays;
* what is undone when a device cannot be mounted detaches the loop device twice
  (`UndoDevice`, `UndoLoop`), as the code does;
* every error of `Deactivate` is tried again and not only a busy device
  (`DeactivateFails`), because a `cryptsetup.Error` is no `syscall.Errno`;
* `UmountWithMetadir` reads the overlay from the mount table, takes it off, and then
  unmounts the atoms one after the other, returning at the first error; it decides
  whether a device is still used by what its own mount namespace shows.

Every step that calls the system may also fail for a reason of its own (`Failing`): a
`RemoveAll` that fails may have removed a part of the directory or its lock file.

A mount without dm-verity is one step with the outcomes that `FuseMount` shows: it is
made (`MountPlain`); it fails (`MountPlainFails`); it is reported as made although the
time limit has struck and nothing is there, and `Mount` goes on with the next layer
(`MountPlainGivesUp`); or it is reported as failed although a dead mountpoint stays
(`MountPlainDies`).  The last two are possible only for a caller that is not root of
the host (`MayGiveUp`), since root of the host mounts a loop device.  The layers that
were not mounted when the overlay was are its `gaps`, the exception of
`LiveMoleculeIntact`.  A mount whose server has died is still a mount: the kernel puts
no overlay over it, one of the reasons of `MountOverlayFails`, and it can be unmounted.

What the model takes from the kernel is marked external in the map: a device that is
mounted or a layer of an overlay cannot be removed, a mountpoint cannot be removed, a
lower directory cannot be given twice, a loop device in use is detached when its last
user goes, the kernel refuses to mount a superblock on top of itself, a flock ends with
the process.

`SerialMounts` says that callers run no two `Mount`s for one metadata directory at once.
The code does not enforce it (run `race`); the runs that assume it show what holds
besides.

### AtomicMolecule, MoleculeRefinement

The abstract specification has what a user sees: which molecule is on a target (`live`),
which root hash the device of an atom has (`dev`), how far each command is (`phase`).
A molecule may lack layers (`gaps`) only if it was mounted with `--allow-missing-verity`.
Mount takes effect in one step or not at all, Umount takes a molecule off in one step
and then releases its layers, a device comes and goes (`SetUp`, `TearDown`) but never
while a molecule is read through it, and a directory carries at most one molecule.
Under the mapping a Mount takes effect at `MountOverlay` and an Umount at `UmountTop`;
all other steps are steps of a device, ends of a command, or stuttering.  The mapping
reads the last overlay of a target, so that a second one on the same directory would be
seen as a step that the abstract specification does not have.

### Verify

One `verify` runs beside everything `Molecule` can do, on any target; it adds its own
variables and leaves those of `Molecule` alone.  It looks its target up in one reading
of the mount table (`LookForTarget`), takes its list from a second one (`ParseMounts`),
and reads the status of each listed mount in any order (`ConfirmOne`).  `plain` mounts
are those of a FUSE server, which verify skips, or of a loop device, which it counts and
reports, since a loop device has no verity status: the model allows both.  `known` and
`steady` are history: the devices that were corrupt when verify began and since, and
whether the overlays on the target are those it began with.  A molecule that is taken
down meanwhile may get any answer.

### FuseMount

`Spec` lets the child do anything at any time; time is one bit, `late`, set when the 30
seconds are over.  `SupportsNotify`, fixed in the initial state, chooses between the two
ways `squashFuse` waits (`erofsFuse` has only the polling one).  `cmd.ProcessState` is read without
synchronisation, so `CheckExit` may miss it.  `Process.Release` may come before the
goroutine has begun to `Wait`.

The caller polls in two steps.  `Look` is the `Lstat` of the directory: with nothing
mounted it is answered by the file system, and on a dead mountpoint it fails, which
counts as a change; in a live mount it is a question to the child, and `Answer` is its
answer.  A child that has mounted and hangs (`Hangs`) leaves it open, and then neither
the poll nor the time limit goes on.

So `ok` does not mean that the image is served now.  `OkWasServed` says that this child
had mounted it, and `ErrorLeavesNoServer` that after an error no server serves the
directory and none will; a mountpoint whose server mounted and died may stay in both
cases (see the disagreements).

`Molecule` takes a guest mount as one step with these outcomes.  That the step ends,
with a child that hangs in its mount, or neither writes nor exits where there is a
`notify_pipe`, is an assumption of `Termination`.

### ExtractPolicy

A caller is one call of `ExtractSingleSquashPolicy` (or of its erofs twin, which has the
same control).  `owner` is the policy mutex together with the deferred functions that
come with it, `busy` the mutex of each extractor, `content` what a directory has.  A
Mount on a nil extractor panics and ends the process (`Die`), and so does
`IsMountedAtDir` at a mountpoint whose server is gone (`LookPanics`).  `policy.initialized` is
read outside the lock; the model reads the current value, which assumes that the writes
of the initializer are seen in order, as on amd64.  On a machine with weaker ordering
a call may see `initialized` and not yet `Extractor`; then it panics, as after an
initializer that has failed.

When `unsquashfs` or `fsck.erofs` fails, `os.RemoveAll` may fail as well, which is only
logged: what it leaves (`left`) counts for the next call as the image (`UnpackFails`,
`Removed`).  A program that ends well without having extracted anything is an error
(`UnpackedInVain`).  The FUSE extractors return nil also when they gave up on the server
or the server has died (`MountUnserved`), which becomes the extractor of the policy;
such a call has the result `unserved`, a name for what the caller cannot tell from
success.  A server that dies after its call has returned is not modelled.

### ExcludePaths, MakeImage, OciImage

A path is the sequence of its names.  `HasPrefix` is the one of strings: `NameStarts`
has the pairs of names of which one begins the other, so that /usr is a prefix of /usr2.
The caller names each path of a tree at most once, in any order, and never "/".

A builder is one call of `MakeSquashfs` or `MakeErofs`.  `temp` is the directory all
builders use; a file is what matters of its content: whose trees are in it, the bytes
its superblock counts, its size, and of its verity data where it begins, what it covers
and what its root hash stands for.  `CreateTemp`, `RemoveTemp` and `Mkfs` are separate
steps, because between the second and the third the name belongs to nobody
(squashfs.go:72-83); `mksquashfs` adds to an image it finds.  `Return` has the deferred
removals of every early return.

`os.CreateTemp` draws any name whose file does not exist (`Free`), also one that another
call has drawn before and removed the file of.  `clash` is history: the calls of which
one drew the name of the other in that window.  The blobs of those two may be mixed, as
the comment at squashfs.go:76-78 says, and are the exception of `BlobIsOwn` and of
`ReturnedBlobMounts`; all other calls are covered, whatever names they draw, because
at any other time one of the two files is there and the name is not drawn.  `mkfs` is
one step: that the file of another builder is removed or replaced while a program
writes it changes nothing but the blobs of the two.  The names of the two packages and
of the list of excluded paths begin differently and never meet.

`HostMount` is what `VerityHostMount` later concludes from the superblock and the size
of a blob.  `BlobIsOwn` and `ReturnedBlobMounts` compare what was written with it.  The
arithmetic is that of natural numbers: sizes are those of files, far below 2^64.

A publisher looks the tag up, puts layers, the configuration and the manifest into the
layout and then moves the tag; a reader resolves the tag and builds a molecule from the
manifest.  `LookupManifest` is one step, although it reads several blobs, because blobs
are named by their content and the layout only grows.  The branches for a manifest that
is not in the layout are in the model and never taken: that is `TagResolves`.  Two
publishers of one tag can lose each other's update; no doc promises otherwise.

## Runs

| run | configuration | what it asks |
|---|---|---|
| `share` | 4 callers, 3 targets, 2 of which share a metadata directory, images with a common layer; nothing fails but the two steps that may without harm, `ensureDir` and `umountTop` | nothing leaks, nothing is missing, an Umount completes, the inductive invariant behind the two, the refinement |
| `faults` | the same with every step failing, two callers killed, a corrupt blob, wrong, missing and partial root hashes, a caller without host root whose FUSE mounts come to nothing or die, an unknown media type | safety under faults, what a successful Umount has released, that nobody takes over what a failed invocation left, the refinement, and the three inductive invariants behind them (`IndInv` begins with `TypeOK`, and `PlaceInv` has the two invariants of `fallback` as consequences) |
| `fallback` | no caller can write to `$TMPDIR`; every step failing, two callers killed, two namespaces | the locks in the metadata directories still protect a live molecule |
| `verify` | 3 callers and a verify of any target, a corrupt blob, erofs and unverified layers, a device that another namespace keeps busy, five tries | the verdict of verify, its inductive invariant, every step of an invocation brings it forward, and every invocation ends |
| `leak`, `race`, `namespaces` | the smallest instances | disagreements, see below |
| `fuse` | the whole state space of `FuseMount` | a success was mounted, errors leave no server, the inductive invariant behind the two, the caller returns when it polls unless a mounted child hangs, and hears the child that exits or writes |
| `fuse_gave_up` | the same | a disagreement |
| `extract` | 3 goroutines of a process with 3 extractors, any of which fails or, with FUSE, comes to nothing, removals that fail, a kill, and a process with none | one decision, results that are complete but for the exceptions it names, no circle of calls that wait for mutexes, every step of a call brings it forward, every call returns, and the inductive invariants `PolicyInv` and `CompleteInv` |
| `extract_partial` | 2 callers | a disagreement |
| `image` | 3 builders (erofs with verity data, squashfs with verity data and excluded paths, squashfs without either), names of temporary files that two of them may draw again, a tree in which /usr2 begins like /usr, 2 publishers of one tag, 1 reader; every step failing and kills | what is left out of an image, whose tree a blob has, whether it mounts, the tag, the order of layers |

Bounds.  Four invocations are enough for two molecules that share a layer to be mounted
and unmounted with a fifth hand not needed: every hazard known needs at most three,
which is what `verify` has, with the verify as the fourth.
Three metadata relations (same target, same metadata directory, different directory),
two layers (first and last of a loop, one shared), three loop devices (the two devices
of a run and one that leaked, so that none being free happens too), and a retry limit of
two where everything fails and of five, the value of the code, where termination is the
question.  Loop devices are interchangeable (symmetry), except in `verify`, where symmetry is
unsound because of the liveness property, and where there are two of them.  Nothing else is bounded: the state spaces are finite because an
invocation runs one command.  `faults` has some 1.1 million states, `fallback` 2.6
million, `verify` 250 thousand, `image` 3.5 million, the others fewer.  In `image` the
two squashfs builders draw from two names, so that they have one each or one draws the
other's again; the erofs builder and the list of excluded paths have one each, nobody
else being able to draw theirs.  Sizes are one that is not padded and one that is (5000 and 8192), and
the two names are interchangeable (symmetry).

Deadlock is checked in every run but `image`; `Terminated` and `Ended` are the states in
which all invocations have returned.  In `image` the system may really stop: a publisher
waits for a builder that has failed.

Fairness.  `Molecule!FairSpec` is weak fairness of each process: one that can take a
step takes one, and Linux hands a released flock to a waiter.  Weak fairness is enough
for the lock because an invocation runs once; `Verify!VerifySpec` is the same with a
verify beside it, of which it demands nothing.  `FuseMount!FairSpec` makes the caller and
the goroutines of this program run, and time pass; it demands nothing of the child.
`ExtractPolicy!FairSpec` is weak fairness of each call, and strong fairness of taking a
mutex (a `sync.Mutex` hands itself to a waiter that has starved for 1 ms); it takes it
that the external programs end.

`LiveMoleculesVerified` is not claimed in `fallback`, where the locks do not exclude
each other: an atom can be unmounted and mounted plainly by another molecule between
two steps.

## Disagreements found

Each is shown by a run that violates one property.

* `leak`: a failed `Mount` leaves the atoms before the failing one mounted, contrary to
  the comment at molecule.go:64.
* `race`: two `Mount`s of one target stack two overlays, because the existence check of
  molecule.go:209 comes before the lock.
* `namespaces`: `Umount` stops half way when another mount namespace uses a device.
* `fuse_gave_up`: after the time limit success is returned (squashfs.go:281,
  erofs.go:223).  For a guest a molecule is then mounted with a layer missing, its
  directory being empty (`MountPlainGivesUp`), and an `Umount` of it stops half way at
  that layer; a FUSE extractor reports an image that is not there (`MountUnserved`), and
  is chosen for all later calls.
* `extract_partial`: a directory another process is still filling, or was killed in, is
  taken for a finished one.

Others are in the models and have no run of their own:

* A writeable molecule mounted on a relative path names the target as it was given in
  its lower directories (molecule.go:287, cmd/atomfs/mount.go:111).  `Umount` from
  another working directory does not recognise it ("overlaydirs includes the top level
  mount, ignore it", molecule.go:398) and fails with the overlay gone and the atoms
  mounted: `over = "stray"` with `UmountCompletes`.
* With the backup lock in the metadata directories a detected device can be deleted by
  another invocation, which the comment at molecule.go:176 wants excluded:
  `LockDirOf <- NoCommonLock` with `DetectedDeviceStays`.
* A FUSE server that mounts and dies between two polls is taken for a mount, because an
  `Lstat` that fails counts as a change (utils.go:109-112), where squashfs.go:226 says
  that "child process exits - if it did, then some error has occurred".  It is the
  reason that `OkWasServed` says only that the image had been mounted.
* The other way about, an error may leave the mountpoint of a server that mounted and
  died, and nobody unmounts it: `fs = "broken"` with `ErrorLeavesNoServer`.
  `IsMountedAtDir` panics on such a mountpoint (common/mount.go:108-112: the error of
  `os.Stat` is not that nothing exists, and `dstat` is nil).
* Where the directory is polled the time limit of squashfs.go:225-231 has no effect once
  the server has mounted and hangs, because the poll waits for its answer
  (utils.go:109): `<>[]Hangs` in `FuseReturns`.
* With `notify_pipe` the time limit of the comment at squashfs.go:225-231 does not
  exist either: the conjecture `<>(pc = "done")` of `FuseMount` without its first disjunct
  fails for a child that neither writes nor exits.
* `verify` ("check atomfs image for dm-verity errors", verify.go:18) counts mounts of
  type squashfs only (verify.go:79): the erofs layers of a molecule are not looked at,
  and a molecule of erofs layers is reported as having "no applicable mounts".  In
  `Verify` it is the explicit exception `Erofs` of both properties.
* A failed `os.RemoveAll` leaves a part of an image that the next call of the same
  process takes for all of it (squashfs.go:373-377 and erofs.go:315-320 only log the
  error, against the comment at squashfs.go:380-381).  It is the exception `left` of
  `OkUnlessLeft`.
* Of two builders, one that draws the name of the other while it belongs to nobody may
  return, without an error, a blob with the trees of both: the source says so itself
  (squashfs.go:76-78), and it is the exception `clash` of `BlobIsOwn`.
* An initializer of an extraction policy that cannot make its directory leaves a policy
  without extractor that counts as initialized; the next call panics on nil.  This is
  the disjunct `aborted` of `ReadyOrAborted`; `InitializedIsReady`, without it, fails with
  the constants of `MCExtract.cfg`.
* A path is shielded from being left out by an included path that merely begins like it
  (exclude.go:35 compares strings, where the comment above it is about /usr/bin/ls and
  its directory /usr): with /usr2 included, /usr is not excluded.  `ExcludedDropped` has
  it in its hypothesis, as `HasPrefix`.
* `AppendVerityData` covers whole pages of the machine that builds (verity.go:120-124).
  A squashfs image is padded to 4096 bytes; where pages are larger its end is not
  covered: `ReturnedBlobMounts` fails for `diff :> 9000` in `MCImage.tla` and
  `PageSize = 8192` in `MCImage.cfg`.

## Proofs

All theorems hold for every value of the constants that satisfies the modules'
assumptions: any number of invocations, targets, images, layers, goroutines, builders.
What else they assume is in their statements:

| theorems | assume | because otherwise |
|---|---|---|
| `MoleculeProofs`: `LocalsInvariance`, `TypeCorrect`, `StepsGoForward`; all of `FuseProofs` | nothing | |
| `MoleculeProofs`: the others; `UmountProofs`: `UmountInvariance`, `UmountReleases` | `CommonLock`: all invocations create their lock file in one directory | two of them can be in the critical section |
| `PlaceProofs` | `SerialMounts`: no two Mounts for one metadata directory at once | run `race` |
| `PlaceProofs`: `OnlyLayersInvariance`; `RefinementProofs`, `VerifyProofs` | both | |
| `UmountProofs`: `CleanInvariance`, `NothingLeaks`, `UmountsComplete` | both, and `Undisturbed` (below) | runs `leak` and `namespaces` |
| `ExtractPolicyProofs` | nothing; `CompleteInvariance` and `SuccessUnlessLeft`: `OwnDirectories`, no two processes extract to one directory | run `extract_partial` |
| `ImageProofs` | nothing; `BlobsMountable` and `MoleculesTopFirst`: `PageSize = 4096` | a squashfs is not covered to its end |

`CommonLock`, `SerialMounts` and `Undisturbed` hold in `share`, where `MCShare` has TLC
evaluate them; the last two theorems of `ImageProofs` also spell out that the values
`NoRoot` and `NoSuperblock` are none of the records they stand beside.

### Local variables and progress

`LocalsInvariance` says that the local variables of each invocation are as the step it
is at needs them (`LocalsOK`: the position in the layers is within the layers, a device
is only set up with a root hash and a loop device, a Umount has no steps of a Mount).
No lock is needed for it, and `TypeCorrect` follows.

`StepsGoForward` is the safety half of `Termination`, for any number of layers, of
retries and of other invocations.  The position of an invocation is its step outside of
the loops, the layer it is at, its step with that layer, and the attempts to remove that
layer's device, compared in this order.  Each step of the invocation, a kill included,
brings it forward, no other step moves it, and there are finitely many positions for the
layers it works on, which follows from `LocalsOK`.  What a Mount or Umount may still do
for ever is wait at `flock`, or in a system call.

### The lock and verified mounts

`MoleculeProofs` proves

* `Invariance`: `IndInv` is an invariant;
* `MutualExclusion`, `MoleculesStayVerified`, `DevicesStay`: what it implies.

The safety properties are not inductive.  That a mounted molecule stays verified depends
on no device being removed while it is mounted or about to be, which depends on there
being one invocation in the critical section, on what that one has done so far
(`MountingOK`: the layers before `idx` are mounted once, each through a device with the
annotated hash), on the shape of the mounts (`MountsOK`: at most one on a mountpoint,
of a device that is there) and on the pins of the overlays (`OverlaysOK`).  `IndInv` is
the conjunction, with the types of the local variables at each step (`LocalsOK`).  The
proof goes action by action: `Typing` for the types, `ExclusionStep` for the lock,
`Footprint` for the few actions that touch devices and mounts, `DeviceStep`,
`MountsStep` and `OverlaysStep` for what these leave, `OthersMounting` and `OwnMounting`
for the local knowledge, and `Inductive` puts them together.

### Places

`PlaceProofs` proves `PlaceInvariance`, and from it `MoleculesStayIntact`,
`MoleculesKeepMeta` and `AbandonedForEver`.  `PlaceInv` says that a metadata directory
belongs to at most one live molecule, and, for each invocation at each step (`PlaceOK`),
whose place it is: a Mount past its existence check has no molecule and no other Mount
beside it; a Umount past the top has taken the molecule off and nobody has put another
on, because the metadata directory is still there and a Mount refuses it.  The heart of
it is that the one check before the lock is enough if Mounts of one directory are
serial: the directory is removed only by a Mount that failed, which then has no molecule
there, and by a Umount as its last step.

None of this rests on the common lock.  `PlaceInv` uses of the other invariants
`LocalsInv` only, so that the theorems hold as well for callers that cannot write to
`$TMPDIR` and lock files in the metadata directories, files that are removed and made
anew while others wait for them: run `fallback`, for every instance.

`MoleculesStayIntact` does not say that a guest's molecule has all its layers: those in
its `gaps` were missing when the overlay was mounted, and only a Mount of a caller that
is not root of the host, with `--allow-missing-verity`, can leave any.  For all other
molecules, and for all other layers of these, it has no exception.

`AbandonedForEver` is the other side: what a failed or killed invocation left below a
metadata directory is used by nobody and removed by nobody.

`OnlyLayersInvariance` adds, now with the common lock, that nothing but the layers of
its molecule is mounted below a metadata directory, and through which device.

### The refinement

`RefinementProofs` proves that `Spec` implies `ImplementsAtomic`.  `Kinds` sorts the
steps into those that put a molecule on, take one off, end a command and the rest;
`DeviceChanges` says that only three steps change a device.  The steps that matter then
use `IndInv` for what the layers and devices are, and for that no device an overlay pins
is taken down, `PlaceInv` for whether the place is free, and `UmountInv` for that the
overlay a Umount takes off is the one it has read.

### Umount

`UmountProofs` proves `UmountInvariance` and `UmountReleases`.  `UmountInv` says how far
a Umount is: the overlay it is about to take off is the one whose layers it has listed;
afterwards every layer before the one it is at is off its mountpoint, and its device
is gone when its loop device is detached.  That nobody else mounts there meanwhile is
the lock, from `IndInv`.

### Nothing leaks

`NothingLeaks` and `UmountsComplete` are the theorems of a machine on which nothing goes
wrong (`Undisturbed`): no blob is tampered with, the root hashes are right or, with
`--allow-missing-verity`, absent, no image has a layer twice, no process is killed, there
is one mount namespace, no target is given relative to a working directory, there are as
many loop devices as layers that may be asked for, and no system call fails but those
before anything was touched.  They say that while nobody has the lock there are exactly
the devices, loop devices, mounts and metadata directories that the live molecules need,
and that a Umount that has taken off the overlay does not fail.

The invariant is `CleanInv`, on top of `IndInv`, `PlaceInv`, `OnlyLayers` and
`UmountInv` (together `SafeInv`).  It names somebody who answers for everything that
exists: each device is mounted below a metadata directory, or about to be by the one
invocation that has the lock, or about to be removed by it (`DevicesClean`); each
attached loop device is that of a device, or in the hands of that invocation; each
metadata directory has a molecule, or an invocation at work on it (`PlacesClean`).  And
it says what is left to do: a Mount has the layers from `idx` on unmounted, a Umount has
exactly those from `idx` on mounted (`MountClean`, `UmountClean`).

The proof first shows that no step fails (`Healthy`): `Fit` for that what is to be
mounted is mountable, and `FreeLoop` for that a loop device is free, which is a
pigeonhole: each attached loop device backs a layer of its own, the layer that asks has
none yet, and there are as many loop devices as layers.  Then `HolderStep` and
`QuietDevices` follow the devices, `OwnMountClean` and `OwnUmountClean` the invocation
that makes the step, `OthersClean` the others, and `OwnerStep` and `PlacesStep` the
directories.

### Verify

`VerifyProofs` proves `VerifyInvariance`, `CorruptionFoundByVerify` and
`NoAlarmForOthers`.  `VerifySpec` implies `Spec`, so that `IndInv` and `PlaceInv` hold.
`VerifyInv` adds that nothing but layers of its molecule is mounted below a metadata
directory (`OnlyLayers`), so that what verify reads there are those; and that, as long as
the molecule stays, each bad device is still to be read or was complained of
(`ReadingOK`).

### Guest mount

`FuseProofs` proves `FuseInvariance`, and from it `FuseTypeCorrect`, `SuccessWasServed`
and `FailureLeavesNoServer`.  `FuseInv` relates the step of the caller to how far the
child can be: behind an error the child either runs no more, or has said on the pipe
that it could not mount, after which it does not; before a success it has served, or the
caller had given up on it.  That a mount is not broken it does not say.  `FuseMount` has no constants and a small state space, which
run `fuse` exhausts; the proof adds the reason.

### Extraction

`ExtractPolicyProofs` proves that `PolicyInv` is an invariant (`PolicyInvariance`), that
it implies `PolicyTypeOK` and `ReadyOrAborted` (`PolicyTypeCorrect`, `PolicyReady`), and
that a decision is final (`PolicyDecidedOnce`).  The strengthening over `ReadyOrAborted`
is who may be beyond the lock: before the decision only the owner of the mutex, and only
the owner is in the loop over the extractors.

`SuccessUnlessLeft` follows from `CompleteInv` (`CompleteInvariance`): a half filled
directory is explained by a call that unpacks now, or by one that was killed, and in
both cases no call of the process can take it for a finished one.  What a failed
`os.RemoveAll` has left is not explained in this way and can: `left` stands for it, so
that the theorem does not claim it.  `OneKind` is what keeps a success from being undone:
after the decision all calls use one extractor, and none is about to mount over a
directory of which another call has reported success.

`CallsDoNotDeadlock` is about the two kinds of mutexes, one of which the initializer
takes while it holds the other.  By `MutexInvariance` the mutex of an extractor is held
by a call that is in its Mount, where nothing waits for a mutex; by `PolicyInv` the
mutex of the policy is held by a call beyond the lock, which waits at most for an
extractor.  So whoever waits, somebody of the same process goes on: TLC's own check for
deadlocks would not see one that leaves another process running.  `CallsGoForward` is
for a call what `StepsGoForward` is for an invocation: each step brings it forward, among
as many positions as its policy has extractors.

### Images

`ImageProofs` proves, by an invariant for each module (`ExcludeInv`, `BuildInv`,
`PublishInv`): `IncludedNeverDropped`, `ExcludedAlwaysDropped`, `NoTempFileLeft`,
`BlobsNotMixed`, `BlobsMountable` and `TagNeverDangles`.  The lemmas before them are
about prefixes of paths as sequences.  In `BuildInv` a builder that is
not in `clash` shares its name with no other that still uses it (`OwnName`), no file is
in the way of its `mkfs`, and what it finds under its name is what it made: whoever
draws the name meanwhile draws it while no file is there, and that puts both in `clash`; the rest of
`BlobsMountable` is arithmetic: the padded size of the superblock is the size of the file
the hash tree was appended to.

`MoleculesTopFirst` goes through all of it: what a reader has built are the layers of the
manifest it has read, in the opposite order, each of which root of the host can mount
(`ReadInv`).  The order is what the loop of `BuildMoleculeFromOCI` computes, which swaps
the layers in place from the middle outwards and is a recursive function in `OciImage`.
`Swapped` describes the sequence after each of its iterations, for even and odd lengths.
That it holds after all of them is an induction over the iterations; as the induction
theorems of the library take an operator, which the provers cannot instantiate,
`Downwards` does it through the minimum of the set of counterexamples (`WFMin`).

### Only model-checked

Liveness under fairness, which the prover cannot treat: `Termination`, `FuseReturns`,
`ChildIsHeard` and `CallsReturn`.  `StepsGoForward` proves what of the first is safety,
`CallsGoForward` and `CallsDoNotDeadlock` what of the last is.  All other properties of the passing runs are
stated by theorems.

## Not modelled

* The text of `/proc/self/mountinfo` and of option strings (their overflow of 4096
  characters is a failing step; names that contain `:` or `,` are not), the parsing of
  `/proc/self/uid_map` and the search of `$PATH`: their results are constants.
* Which extractors `NewExtractPolicy` finds on the machine: the constant `Extractors`.
* The fields of the superblocks that nothing uses, and the checks of their values beyond
  the magic number and the block size.
* Dispatch on media types, beyond that an unknown one is refused; logging; argument
  parsing; the content of files, their ownership and modes.
* What libcryptsetup, losetup, `mksquashfs`, umoci and the kernel do inside: they are
  modelled from how the code uses them and marked external in the map.
* A directory of an extraction policy has one image.  `IsMountedAtDir` takes anything
  mounted there for it; no doc says what the functions should do with a second image.

## Plan

Order: what several actors share first, the sequential parts after it.

1. Done: `World`, `Verity`, `Molecule` with the proofs of the lock and of verified
   mounts; `FuseMount`; `ExtractPolicy` with the proofs of the decision; `Verify`, composed with
   `Molecule`.
2. Done: `ExcludePaths`, `MakeImage` with the place of the verity data, `OciImage`, and
   their proofs.
3. Done: `AtomicMolecule` and the refinement, checked and proved.
4. Done: `LiveMoleculeIntact`, `LiveMoleculeKeepsMeta`, `OkUmountReleases`, the
   properties of `Verify`, `OkUnlessLeft` for directories of one process.
5. Done: `CleanWhenUnlocked` and `UmountCompletes` under the assumptions of run `share`;
   `LiveMoleculeIntact` without the common lock; the safety of `FuseMount`; the order of
   layers; `StepsForward`, `CallsForward` and `NoDeadlock`.

---------------------------- MODULE ExtractPolicy ----------------------------
(***************************************************************************)
(* ExtractSingleSquashPolicy and ExtractSingleErofsPolicy: the goroutines  *)
(* of a process extract images under one policy.  The first call tries the *)
(* extractors in the order of the policy and the one that works is used by *)
(* all later calls.  Policies of different processes share directories and *)
(* nothing else.                                                           *)
(***************************************************************************)
EXTENDS Naturals, Sequences

CONSTANTS
  Callers, Policies, Dirs,
  Nobody, NoExtractor,
  PolicyOf,      \* the policy, and with it the process, of a caller
  DirOf,         \* the directory a caller extracts to
  Extractors,    \* Extractors[x]: those available, in the order of the policy
  Failing,       \* steps that may fail for an outside reason
  Crashers       \* processes that may be killed

Kinds == {"kmount", "fuse", "unpack"}   \* unpack is unsquashfs or fsck.erofs

(* What is at a directory: nothing, no files, files that are being or were *)
(* unpacked, all files of the image, a mounted image; files that an        *)
(* os.RemoveAll could not remove; the mount of a FUSE server that is gone. *)
Contents == {"absent", "empty", "partial", "full", "mounted", "left", "broken"}

(* What a call returned.  "ok" and "unserved" are both nil: after the      *)
(* second the FUSE server has not mounted, or has died since, which the    *)
(* caller cannot tell.  "dead" is a call whose process has ended.          *)
Results == {"none", "ok", "unserved", "err", "dead"}

ASSUME PolicyAssumption ==
  /\ PolicyOf \in [Callers -> Policies]
  /\ DirOf \in [Callers -> Dirs]
  /\ Extractors \in [Policies -> Seq(Kinds)]
  /\ Nobody \notin Callers /\ NoExtractor \notin Kinds
  /\ Crashers \subseteq Policies

VARIABLES
  pc, res,       \* where a call is, what it returned
  idx,           \* the initializer's position in the extractors
  using,         \* the extractor whose Mount a call is in
  initialized,   \* policy.initialized
  owner,         \* who holds policy.mutex: the initializer
  chosen,        \* policy.Extractor
  hopeless,      \* policy.Excuses["init"] is set
  aborted,       \* the initializer returned before it tried an extractor
  busy,          \* who holds the mutex of an extractor
  content        \* what is at a directory

vars == <<pc, res, idx, using, initialized, owner, chosen, hopeless, aborted, busy, content>>
policy == <<initialized, owner, chosen, hopeless, aborted>>

PolicyTypeOK ==
  /\ pc \in [Callers -> {"start", "lock", "mkdir", "choose", "wait", "look",
                         "mount", "unpack", "unpacking", "ended"}]
  /\ res \in [Callers -> Results]
  /\ idx \in [Callers -> Nat]
  /\ using \in [Callers -> Kinds \cup {NoExtractor}]
  /\ initialized \in [Policies -> BOOLEAN]
  /\ owner \in [Policies -> Callers \cup {Nobody}]
  /\ chosen \in [Policies -> Kinds \cup {NoExtractor}]
  /\ hopeless \in [Policies -> BOOLEAN] /\ aborted \in [Policies -> BOOLEAN]
  /\ busy \in [Policies -> [Kinds -> Callers \cup {Nobody}]]
  /\ content \in [Dirs -> Contents]
  /\ \A c \in Callers : idx[c] <= Len(Extractors[PolicyOf[c]])

Init ==
  /\ pc = [c \in Callers |-> "start"] /\ res = [c \in Callers |-> "none"]
  /\ idx = [c \in Callers |-> 0] /\ using = [c \in Callers |-> NoExtractor]
  /\ initialized = [x \in Policies |-> FALSE] /\ owner = [x \in Policies |-> Nobody]
  /\ chosen = [x \in Policies |-> NoExtractor]
  /\ hopeless = [x \in Policies |-> FALSE] /\ aborted = [x \in Policies |-> FALSE]
  /\ busy = [x \in Policies |-> [k \in Kinds |-> Nobody]]
  /\ content \in [Dirs -> {"absent", "empty"}]

Goto(c, step) == pc' = [pc EXCEPT ![c] = step] /\ UNCHANGED res
MayFail(c) == pc[c] \in Failing
Initializer(c) == owner[PolicyOf[c]] = c

(* A mistake: return without unlocking the mutex.                          *)
ReturnLocked(c, r) ==
  LET x == PolicyOf[c]
  IN /\ pc' = [pc EXCEPT ![c] = "ended"]
     /\ res' = [res EXCEPT ![c] = r]
     /\ idx' = [idx EXCEPT ![c] = 0]
     /\ using' = [using EXCEPT ![c] = NoExtractor]
     /\ initialized' = [initialized EXCEPT ![x] = @ \/ Initializer(c)]
     /\ UNCHANGED owner

(* The deferred functions: initialized is set, then the mutex unlocked.    *)
Return(c, r) ==
  LET x == PolicyOf[c]
  IN /\ pc' = [pc EXCEPT ![c] = "ended"]
     /\ res' = [res EXCEPT ![c] = r]
     /\ idx' = [idx EXCEPT ![c] = 0]
     /\ using' = [using EXCEPT ![c] = NoExtractor]
     /\ initialized' = [initialized EXCEPT ![x] = @ \/ Initializer(c)]
     /\ owner' = IF Initializer(c) THEN [owner EXCEPT ![x] = Nobody] ELSE owner

-----------------------------------------------------------------------------
(* Which of the two ways a call goes.                                      *)

ReadInitialized(c) ==
  /\ pc[c] = "start"
  /\ Goto(c, IF initialized[PolicyOf[c]] THEN "mkdir" ELSE "lock")
  /\ UNCHANGED <<idx, using, policy, busy, content>>

(* Mistakes: no mutual exclusion; declare the policy initialized as soon   *)
(* as there is an initializer.                                             *)
LockNothing(c) ==
  LET x == PolicyOf[c]
  IN /\ pc[c] = "lock"
     /\ owner' = IF initialized[x] THEN owner ELSE [owner EXCEPT ![x] = c]
     /\ Goto(c, "mkdir")
     /\ UNCHANGED <<idx, using, initialized, chosen, hopeless, aborted, busy, content>>

LockTooEarly(c) ==
  LET x == PolicyOf[c]
  IN /\ pc[c] = "lock" /\ owner[x] = Nobody
     /\ IF initialized[x] THEN UNCHANGED <<owner, initialized>>
        ELSE owner' = [owner EXCEPT ![x] = c] /\ initialized' = [initialized EXCEPT ![x] = TRUE]
     /\ Goto(c, "mkdir")
     /\ UNCHANGED <<idx, using, chosen, hopeless, aborted, busy, content>>

Lock(c) ==
  LET x == PolicyOf[c]
  IN /\ pc[c] = "lock" /\ owner[x] = Nobody
     /\ owner' = IF initialized[x] THEN owner ELSE [owner EXCEPT ![x] = c]
     /\ Goto(c, "mkdir")
     /\ UNCHANGED <<idx, using, initialized, chosen, hopeless, aborted, busy, content>>

(* A mountpoint whose server is gone is no directory for os.MkdirAll.      *)
MakeDir(c) ==
  /\ pc[c] = "mkdir" /\ content[DirOf[c]] # "broken"
  /\ content' = [content EXCEPT ![DirOf[c]] = IF @ = "absent" THEN "empty" ELSE @]
  /\ Goto(c, "choose")
  /\ UNCHANGED <<idx, using, policy, busy>>

MakeDirFails(c) ==
  /\ pc[c] = "mkdir"
  /\ MayFail(c) \/ content[DirOf[c]] = "broken"
  /\ Return(c, "err")
  /\ aborted' = [aborted EXCEPT ![PolicyOf[c]] = @ \/ Initializer(c)]
  /\ UNCHANGED <<chosen, hopeless, busy, content>>

Use(c, k) == using' = [using EXCEPT ![c] = k] /\ Goto(c, "wait")

(* The process and all of its calls end; the directories stay as they are, *)
(* an unpacking may be complete later or not.                              *)
Die(x) ==
  /\ pc' = [c \in Callers |-> IF PolicyOf[c] = x THEN "ended" ELSE pc[c]]
  /\ res' = [c \in Callers |-> IF PolicyOf[c] = x /\ res[c] = "none" THEN "dead" ELSE res[c]]
  /\ idx' = [c \in Callers |-> IF PolicyOf[c] = x THEN 0 ELSE idx[c]]
  /\ using' = [c \in Callers |-> IF PolicyOf[c] = x THEN NoExtractor ELSE using[c]]
  /\ owner' = [owner EXCEPT ![x] = Nobody]
  /\ busy' = [busy EXCEPT ![x] = [k \in Kinds |-> Nobody]]
  /\ UNCHANGED <<initialized, chosen, hopeless, aborted, content>>

(* policy.initialized.  A call of Mount on the nil interface panics.       *)
UseChosen(c) ==
  LET x == PolicyOf[c]
  IN /\ pc[c] = "choose" /\ initialized[x]
     /\ \/ /\ hopeless[x]
           /\ Return(c, "err")
           /\ UNCHANGED <<chosen, hopeless, aborted, busy>>
        \/ /\ ~hopeless[x] /\ chosen[x] # NoExtractor
           /\ Use(c, chosen[x])
           /\ UNCHANGED <<idx, policy, busy>>
        \/ ~hopeless[x] /\ chosen[x] = NoExtractor /\ Die(x)
     /\ UNCHANGED content

TryFirst(c) ==
  LET x == PolicyOf[c]
  IN /\ pc[c] = "choose" /\ ~initialized[x] /\ Extractors[x] # << >>
     /\ idx' = [idx EXCEPT ![c] = 1]
     /\ Use(c, Extractors[x][1])
     /\ UNCHANGED <<policy, busy, content>>

NothingToTry(c) ==
  LET x == PolicyOf[c]
  IN /\ pc[c] = "choose" /\ ~initialized[x] /\ Extractors[x] = << >>
     /\ hopeless' = [hopeless EXCEPT ![x] = TRUE]
     /\ Return(c, "err")
     /\ UNCHANGED <<chosen, aborted, busy, content>>

-----------------------------------------------------------------------------
(* Extractor.Mount returns: its mutex is unlocked, and the loop of the     *)
(* initializer goes on.                                                    *)

InLoop(c) == idx[c] > 0

Unlocked(c) == busy' = [busy EXCEPT ![PolicyOf[c]][using[c]] = Nobody]

Succeeds(c, r) ==
  /\ Unlocked(c)
  /\ Return(c, r)
  /\ chosen' = IF InLoop(c) THEN [chosen EXCEPT ![PolicyOf[c]] = using[c]] ELSE chosen
  /\ UNCHANGED <<hopeless, aborted>>

Works(c) == Succeeds(c, "ok")

(* A mistake: begin again when nothing has worked.                         *)
FailsAgain(c) ==
  LET x == PolicyOf[c]
  IN /\ Unlocked(c)
     /\ IF InLoop(c)
        THEN LET i == IF idx[c] < Len(Extractors[x]) THEN idx[c] + 1 ELSE 1
             IN /\ idx' = [idx EXCEPT ![c] = i]
                /\ Use(c, Extractors[x][i])
                /\ UNCHANGED policy
        ELSE Return(c, "err") /\ UNCHANGED <<chosen, hopeless, aborted>>

Fails(c) ==
  LET x == PolicyOf[c]
  IN /\ Unlocked(c)
     /\ IF InLoop(c) /\ idx[c] < Len(Extractors[x])
        THEN /\ idx' = [idx EXCEPT ![c] = @ + 1]
             /\ Use(c, Extractors[x][idx[c] + 1])
             /\ UNCHANGED policy
        ELSE /\ Return(c, "err")
             /\ hopeless' = [hopeless EXCEPT ![x] = @ \/ InLoop(c)]
             /\ UNCHANGED <<chosen, aborted>>

(* A mistake: an extractor without a mutex.                                *)
NoMutex(c) ==
  /\ pc[c] = "wait"
  /\ Goto(c, IF using[c] = "unpack" THEN "unpack" ELSE "look")
  /\ UNCHANGED <<idx, using, policy, busy, content>>

LockExtractor(c) ==
  /\ pc[c] = "wait"
  /\ busy[PolicyOf[c]][using[c]] = Nobody
  /\ busy' = [busy EXCEPT ![PolicyOf[c]][using[c]] = c]
  /\ Goto(c, IF using[c] = "unpack" THEN "unpack" ELSE "look")
  /\ UNCHANGED <<idx, using, policy, content>>

(* KernelExtractor and the FUSE extractors: IsMountedAtDir looks at the    *)
(* directory only, then the program mounts.  When os.Stat fails because    *)
(* the server of the mount is gone, dstat is nil and dstat.IsDir panics.   *)
LookMounted(c) ==
  /\ pc[c] = "look" /\ content[DirOf[c]] # "broken"
  /\ IF content[DirOf[c]] = "mounted"
     THEN Works(c)
     ELSE Goto(c, "mount") /\ UNCHANGED <<idx, using, policy, busy>>
  /\ UNCHANGED content

LookFails(c) ==
  /\ pc[c] = "look" /\ MayFail(c)
  /\ Fails(c)
  /\ UNCHANGED content

LookPanics(c) ==
  /\ pc[c] = "look" /\ content[DirOf[c]] = "broken"
  /\ Die(PolicyOf[c])

CanMount(c) == pc[c] = "mount" /\ content[DirOf[c]] \notin {"absent", "broken"}

(* Where a FUSE server has mounted and died.                               *)
Broken(c) == content' = [content EXCEPT ![DirOf[c]] = "broken"]

MountImage(c) ==
  /\ CanMount(c)
  /\ content' = [content EXCEPT ![DirOf[c]] = "mounted"]
  /\ Works(c)

(* FuseMount: the extractor that gives up on the server returns nil, and   *)
(* so it does when the server has mounted and died before it looks.        *)
MountUnserved(c) ==
  /\ CanMount(c) /\ using[c] = "fuse" /\ MayFail(c)
  /\ UNCHANGED content \/ Broken(c)
  /\ Succeeds(c, "unserved")

MountImageFails(c) ==
  /\ pc[c] = "mount"
  /\ MayFail(c) \/ ~CanMount(c)
  /\ \/ UNCHANGED content
     \/ CanMount(c) /\ using[c] = "fuse" /\ Broken(c)
  /\ Fails(c)

(* UnsquashfsExtractor and FsckErofsExtractor: what is in the directory is *)
(* taken for the result of an earlier call.                                *)
AlreadyUnpacked(c) ==
  /\ pc[c] = "unpack" /\ content[DirOf[c]] \notin {"absent", "empty", "broken"}
  /\ Works(c)
  /\ UNCHANGED content

CannotUnpack(c) ==
  /\ pc[c] = "unpack"
  /\ MayFail(c) \/ content[DirOf[c]] \in {"absent", "broken"}
  /\ Fails(c)
  /\ UNCHANGED content

(* cmd.Run, while it runs; from an image without files nothing comes.      *)
Unpack(c) ==
  /\ pc[c] = "unpack" /\ content[DirOf[c]] = "empty"
  /\ \E r \in {"empty", "partial"} : content' = [content EXCEPT ![DirOf[c]] = r]
  /\ Goto(c, "unpacking")
  /\ UNCHANGED <<idx, using, policy, busy>>

(* Of two that unpack to one directory, the last to end completes it; a    *)
(* mounted image is read-only.                                             *)
Alone(c) == \A b \in Callers \ {c} : DirOf[b] = DirOf[c] => pc[b] # "unpacking"

RunEnds(c) ==
  /\ pc[c] = "unpacking"
  /\ content[DirOf[c]] \in {"empty", "partial", "full", "left"}
  /\ content' = [content EXCEPT ![DirOf[c]] =
                   IF @ = "partial" /\ Alone(c) THEN "full" ELSE @]

Unpacked(c) ==
  /\ RunEnds(c) /\ content[DirOf[c]] # "empty"
  /\ Works(c)

(* Nothing was extracted, or the directory cannot be read to see.          *)
UnpackedInVain(c) ==
  /\ RunEnds(c)
  /\ content[DirOf[c]] = "empty" \/ MayFail(c)
  /\ Fails(c)

(* os.RemoveAll, which cannot remove a mountpoint.  An error of it is only *)
(* logged, and what it has not removed stays.                              *)
Removed(c) ==
  LET here == content[DirOf[c]]
  IN {r \in Contents :
        \/ r = here /\ here \in {"absent", "mounted", "broken"}
        \/ r = "absent" /\ here \notin {"mounted", "broken"}
        \/ /\ "removeAll" \in Failing /\ here \in {"empty", "partial", "full", "left"}
           /\ \/ r = "empty" /\ (here = "empty" \/ Alone(c))
              \/ r = "left" /\ here # "empty"}

UnpackFails(c) ==
  /\ pc[c] = "unpacking"
  /\ MayFail(c) \/ content[DirOf[c]] \in {"absent", "mounted", "broken"}
  /\ \E r \in Removed(c) : content' = [content EXCEPT ![DirOf[c]] = r]
  /\ Fails(c)

-----------------------------------------------------------------------------
Crash(x) ==
  /\ x \in Crashers
  /\ \E c \in Callers : PolicyOf[c] = x /\ pc[c] \notin {"start", "ended"}
  /\ Die(x)

Ended == (\A c \in Callers : pc[c] = "ended") /\ UNCHANGED vars

Call(c) ==
  \/ ReadInitialized(c) \/ Lock(c) \/ MakeDir(c) \/ MakeDirFails(c)
  \/ UseChosen(c) \/ TryFirst(c) \/ NothingToTry(c) \/ LockExtractor(c)
  \/ LookMounted(c) \/ LookFails(c) \/ LookPanics(c)
  \/ MountImage(c) \/ MountUnserved(c) \/ MountImageFails(c)
  \/ AlreadyUnpacked(c) \/ CannotUnpack(c)
  \/ Unpack(c) \/ Unpacked(c) \/ UnpackedInVain(c) \/ UnpackFails(c)

Next ==
  \/ \E c \in Callers : Call(c)
  \/ \E x \in Policies : Crash(x)
  \/ Ended

Spec == Init /\ [][Next]_vars

(* The programs that extract end, and a sync.Mutex does not starve those   *)
(* that wait for it.                                                       *)
FairSpec ==
  /\ Spec
  /\ \A c \in Callers : WF_vars(Call(c)) /\ SF_vars(Lock(c)) /\ SF_vars(LockExtractor(c))

-----------------------------------------------------------------------------
(* What the first call decides, which extractor is used or that there is   *)
(* none, is final once others may act on it (squashfs.go:492-505, 517-521).*)
DecidedOnce ==
  [][\A x \in Policies : initialized[x] =>
       chosen'[x] = chosen[x] /\ hopeless'[x] = hopeless[x]]_vars

(* A call that finds the policy initialized finds what it needs to go on,  *)
(* unless the initializer gave up before it tried anything (see            *)
(* InitializedIsReady).                                                    *)
ReadyOrAborted ==
  \A x \in Policies : initialized[x] =>
    \/ aborted[x]
    \/ chosen[x] # NoExtractor
    \/ hopeless[x]

(* "If so, then the policy will now be initialized" (squashfs.go:495): it  *)
(* has an extractor, or an excuse.                                         *)
InitializedIsReady ==
  \A x \in Policies : initialized[x] => chosen[x] # NoExtractor \/ hopeless[x]

(* The inductive invariant behind the two: while a policy has no decision  *)
(* there is at most one call beyond the lock, its initializer, and only    *)
(* that call walks through the extractors.                                 *)
InExtractor == {"wait", "look", "mount", "unpack", "unpacking"}
BeyondLock  == InExtractor \cup {"mkdir", "choose"}

PolicyInv ==
  /\ PolicyTypeOK
  /\ \A x \in Policies : owner[x] # Nobody =>
       /\ PolicyOf[owner[x]] = x /\ pc[owner[x]] \in BeyondLock
       /\ ~initialized[x]
  /\ \A c \in Callers :
       /\ pc[c] \in BeyondLock => initialized[PolicyOf[c]] \/ Initializer(c)
       /\ pc[c] \in InExtractor => using[c] \in Kinds
       /\ InLoop(c) <=> pc[c] \in InExtractor /\ Initializer(c)
  /\ ReadyOrAborted

(* The calls of a process that wait for a mutex, that of the policy or     *)
(* that of an extractor, which the initializer takes as the second one.    *)
Blocked(c) ==
  \/ pc[c] = "lock" /\ owner[PolicyOf[c]] # Nobody
  \/ pc[c] = "wait" /\ busy[PolicyOf[c]][using[c]] # Nobody

(* While a call waits, another call of its process goes on: the two kinds  *)
(* of mutexes are never taken in a circle, nor left locked by a call that  *)
(* returns (squashfs.go:353-354, 410-411, 463-464, 493-505).               *)
NoDeadlock ==
  \A c \in Callers : Blocked(c) =>
    \E b \in Callers : PolicyOf[b] = PolicyOf[c] /\ pc[b] # "ended" /\ ~Blocked(b)

(* How far a call is: its step outside the extractors, the extractor it    *)
(* tries, and its step with that one.                                      *)
Stage(step) ==
  CASE step = "start"  -> 0
    [] step = "lock"   -> 1
    [] step = "mkdir"  -> 2
    [] step = "choose" -> 3
    [] step = "ended"  -> 5
    [] OTHER           -> 4

Turn(step) ==
  CASE step \in {"look", "unpack"} -> 1
    [] step \in {"mount", "unpacking"} -> 2
    [] OTHER -> 0

Position(c) == <<Stage(pc[c]), idx[c], Turn(pc[c])>>

Before(x, y) ==
  \E k \in 1 .. 3 : x[k] < y[k] /\ \A j \in 1 .. k - 1 : x[j] = y[j]

(* Each step of a call brings it forward, among as many positions as its   *)
(* policy has extractors, and no step of another call or process sets it   *)
(* back: the list is gone through once (squashfs.go:485-552).              *)
CallsForward ==
  [][\A c \in Callers :
       /\ idx'[c] <= Len(Extractors[PolicyOf[c]])
       /\ \/ Before(Position(c), Position(c)')
          \/ Position(c)' = Position(c) /\ ~Call(c)]_vars

(* "assert that extraction must create files. This way we can assume       *)
(* non-empty dir above was populated by unsquashfs" (squashfs.go:380-381): *)
(* a call that reports success leaves the whole image in its directory.    *)
OkMeansComplete ==
  \A c \in Callers : res[c] \in {"ok", "unserved"} => content[DirOf[c]] \in {"full", "mounted"}

(* What is so of it where processes keep to their own directories: success *)
(* is never reported of an image that another call is unpacking, has given *)
(* up on, or was unpacking when its process was killed, and what is there  *)
(* stays there.  The exceptions, which a caller cannot tell from success:  *)
(* an os.RemoveAll has failed and left a part of the image, and a FUSE     *)
(* server was given up on, or has died (see MountUnserved).                *)
OkUnlessLeft ==
  \A c \in Callers : res[c] = "ok" => content[DirOf[c]] \in {"full", "mounted", "left"}

(* The inductive invariant behind it, for processes that do not unpack to  *)
(* the directories of others: what is there in part is being unpacked by a *)
(* call that holds the mutex of the extractor, or its process is dead.     *)
OwnDirectories ==
  \A b, c \in Callers :
    DirOf[b] = DirOf[c] /\ PolicyOf[b] # PolicyOf[c]
      => Extractors[PolicyOf[b]] = << >> \/ Extractors[PolicyOf[c]] = << >>

Holding == InExtractor \ {"wait"}

(* The mutex of an extractor is held by a call that is in its Mount.       *)
MutexInv ==
  \A x \in Policies, k \in Kinds :
    LET b == busy[x][k]
    IN b # Nobody => PolicyOf[b] = x /\ using[b] = k /\ pc[b] \in Holding

CallOK(c) ==
  /\ pc[c] # "ended" => res[c] = "none"
  /\ res[c] = "dead" => \A b \in Callers : PolicyOf[b] = PolicyOf[c] => pc[b] = "ended"
  /\ pc[c] \in InExtractor => Extractors[PolicyOf[c]] # << >>
  /\ pc[c] \in Holding => busy[PolicyOf[c]][using[c]] = c
  /\ pc[c] \in {"unpack", "unpacking"} => using[c] = "unpack"
  /\ pc[c] = "unpacking" => content[DirOf[c]] \in {"empty", "partial", "mounted", "broken"}

(* After the decision all calls use one extractor, so that none comes to   *)
(* mount over what another one has reported.                               *)
OneKind(c) ==
  LET x == PolicyOf[c]
  IN /\ pc[c] \in InExtractor /\ initialized[x] => using[c] = chosen[x]
     /\ pc[c] \in {"look", "mount"} => using[c] # "unpack"
     /\ res[c] = "ok" => initialized[x] /\ Extractors[x] # << >>
     /\ res[c] = "ok" /\ chosen[x] # "unpack" => content[DirOf[c]] = "mounted"
     /\ pc[c] = "mount" =>
          \A b \in Callers : PolicyOf[b] = x /\ DirOf[b] = DirOf[c] => res[b] # "ok"

PartIsExplained ==
  \A d \in Dirs : content[d] = "partial" =>
    \E c \in Callers : /\ DirOf[c] = d /\ Extractors[PolicyOf[c]] # << >>
                       /\ pc[c] = "unpacking" \/ res[c] = "dead"

CompleteInv ==
  /\ OkUnlessLeft /\ PartIsExplained
  /\ \A c \in Callers : CallOK(c) /\ OneKind(c)
  /\ \A x \in Policies : chosen[x] # NoExtractor => Extractors[x] # << >>

(* The calls of a process never wait for each other for ever.              *)
CallsReturn == \A c \in Callers : <>(pc[c] = "ended")
=============================================================================

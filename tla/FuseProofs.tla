----------------------------- MODULE FuseProofs -----------------------------
(***************************************************************************)
(* Proofs about FuseMount: what the result of squashFuse and erofsFuse     *)
(* says of the mount, in every interleaving of the caller, its goroutines  *)
(* and the child, whatever the child does and however long it takes.       *)
(***************************************************************************)
EXTENDS FuseMount, TLAPS

USE DEF caller, server, reaper, Return, Goto, SupportsNotify

LEMMA FuseInitially ==
  ASSUME Init
  PROVE  FuseInv
BY DEF Init, FuseInv, FuseTypeOK

(* The caller: what it reads of the child and of the pipe decides.         *)
LEMMA CallerStep ==
  ASSUME FuseInv, Caller
  PROVE  FuseInv'
<1>. USE DEF FuseInv, FuseTypeOK
<1>1. CASE StartFails
  BY <1>1 DEF StartFails
<1>2. CASE Start
  BY <1>2 DEF Start
<1>3. CASE Look \/ Answer
  BY <1>3 DEF Look, Answer
<1>4. CASE CheckExit
  BY <1>4 DEF CheckExit
<1>5. CASE CheckClock
  <2>1. CASE late /\ child = "running"
    BY <1>5, <2>1 DEF CheckClock, KillStrikes
  <2>2. CASE late /\ child # "running"
    BY <1>5, <2>2 DEF CheckClock, KillStrikes
  <2>3. CASE ~late
    BY <1>5, <2>3 DEF CheckClock
  <2>. QED BY <2>1, <2>2, <2>3
<1>6. CASE SelectAlarm
  BY <1>6 DEF SelectAlarm
<1>7. CASE SelectNotify
  BY <1>7 DEF SelectNotify
<1>8. CASE Release
  BY <1>8 DEF Release
<1>. QED BY <1>1, <1>2, <1>3, <1>4, <1>5, <1>6, <1>7, <1>8 DEF Caller

(* The goroutines that wait for the child and read the pipe.               *)
LEMMA GoroutineStep ==
  ASSUME FuseInv, Goroutines
  PROVE  FuseInv'
<1>. USE DEF FuseInv, FuseTypeOK
<1>1. CASE WaitBegins
  BY <1>1 DEF WaitBegins
<1>2. CASE WaitReaps
  BY <1>2 DEF WaitReaps
<1>3. CASE CloseAlarm
  BY <1>3 DEF CloseAlarm
<1>4. CASE OpenPipe
  BY <1>4 DEF OpenPipe
<1>5. CASE ReadPipe
  BY <1>5 DEF ReadPipe
<1>. QED BY <1>1, <1>2, <1>3, <1>4, <1>5 DEF Goroutines

(* The child, which mounts and speaks only once, and the clock.            *)
LEMMA ChildStep ==
  ASSUME FuseInv, ChildMounts \/ ChildSays \/ ChildEnds \/ TimePasses
  PROVE  FuseInv'
<1>. USE DEF FuseInv, FuseTypeOK
<1>1. CASE ChildMounts
  BY <1>1 DEF ChildMounts
<1>2. CASE ChildSays
  BY <1>2 DEF ChildSays
<1>3. CASE ChildEnds
  BY <1>3 DEF ChildEnds
<1>4. CASE TimePasses
  BY <1>4 DEF TimePasses
<1>. QED BY <1>1, <1>2, <1>3, <1>4

(* The inductive invariant: how far the child is when the caller is where  *)
(* it is (squashfs.go:186-290, erofs.go:151-227).                          *)
THEOREM FuseInvariance == Spec => []FuseInv
<1>1. FuseInv /\ [Next]_vars => FuseInv'
  <2>1. FuseInv /\ UNCHANGED vars => FuseInv'
    BY DEF FuseInv, FuseTypeOK, vars
  <2>. QED BY <2>1, CallerStep, GoroutineStep, ChildStep DEF Next, Ended
<1>. QED BY <1>1, FuseInitially, PTL DEF Spec

(* The variables of the caller, the child and the goroutines keep their    *)
(* types, and the pipe is waited for only where there is one.              *)
THEOREM FuseTypeCorrect == Spec => []FuseTypeOK
<1>1. FuseInv => FuseTypeOK
  BY DEF FuseInv
<1>. QED BY <1>1, FuseInvariance, PTL

(* Success is reported only after the child has mounted the image and, if  *)
(* there is a pipe, has said so, unless the caller gave up on it           *)
(* (squashfs.go:241-290).                                                  *)
THEOREM SuccessWasServed == Spec => []OkWasServed
<1>1. FuseInv => OkWasServed
  BY DEF FuseInv, FuseTypeOK, OkWasServed
<1>. QED BY <1>1, FuseInvariance, PTL

(* Behind an error no server serves the directory, and none ever will,     *)
(* although the child may be running (squashfs.go:241-290,                 *)
(* common/mount.go:37-40); a broken mountpoint may be there.               *)
THEOREM FailureLeavesNoServer == Spec => []ErrorLeavesNoServer
<1>1. FuseInv => ErrorLeavesNoServer
  BY DEF FuseInv, FuseTypeOK, ErrorLeavesNoServer
<1>. QED BY <1>1, FuseInvariance, PTL
=============================================================================

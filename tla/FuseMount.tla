------------------------------ MODULE FuseMount ------------------------------
(***************************************************************************)
(* common.GuestMount with squashFuse or erofsFuse: a FUSE server is        *)
(* started, and the caller waits until it has mounted the image.  The      *)
(* goroutines are the caller, the one that Waits for the child and, with   *)
(* a squashfuse that has notify_pipe, the one that reads the named pipe.   *)
(* The child is another program: it may mount, fail, say so on the pipe,   *)
(* hang or die whenever it likes.  Time is one bit, late.                  *)
(***************************************************************************)
VARIABLES
  pc, ret,       \* the caller, and what GuestMount returned
  child,         \* the FUSE server, "zombie" from its exit until it is waited for
  fs,            \* the mountpoint; "broken" is a mount whose server is gone
  served,        \* the child has mounted the image at some time
  says,          \* the byte the child wrote to the pipe
  waiter,        \* go func() { cmd.Wait(); close(alarmCh) }
  processState,  \* cmd.ProcessState # nil
  notifier,      \* the goroutine that reads the pipe, "none" without notify_pipe
  late,          \* time.Since(startTime) > timeLimit
  killed         \* the caller has given up and killed the child

vars == <<pc, ret, child, fs, served, says, waiter, processState, notifier, late, killed>>
caller == <<pc, ret>>
server == <<child, fs, served, says>>
reaper == <<waiter, processState>>

(* squashfuse 0.5.0 and later; no erofsfuse.                               *)
SupportsNotify == notifier # "none"

FuseTypeOK ==
  /\ pc \in {"start", "look", "answer", "checkExit", "checkClock", "select",
             "release", "done"}
  /\ ret \in {"none", "ok", "err"}
  /\ child \in {"none", "running", "zombie", "reaped"}
  /\ fs \in {"empty", "mounted", "broken"}
  /\ served \in BOOLEAN /\ says \in {"nothing", "s", "f"}
  /\ waiter \in {"none", "spawned", "waiting", "done"} /\ processState \in BOOLEAN
  /\ notifier \in {"none", "idle", "opening", "reading", "sending", "ended"}
  /\ notifier = "idle" <=> pc = "start" /\ SupportsNotify
  /\ pc = "select" => SupportsNotify
  /\ late \in BOOLEAN /\ killed \in BOOLEAN

Init ==
  /\ pc = "start" /\ ret = "none"
  /\ child = "none" /\ fs = "empty" /\ served = FALSE /\ says = "nothing"
  /\ waiter = "none" /\ processState = FALSE /\ notifier \in {"none", "idle"}
  /\ late = FALSE /\ killed = FALSE

Return(r) == pc' = "done" /\ ret' = r
Goto(step) == pc' = step /\ UNCHANGED ret

-----------------------------------------------------------------------------
(* The caller.                                                             *)

(* No program, no log file, a symbolic link, a mountpoint already, no fork.*)
StartFails ==
  /\ pc = "start"
  /\ Return("err")
  /\ notifier' = IF SupportsNotify THEN "ended" ELSE "none"
  /\ UNCHANGED <<server, reaper, late, killed>>

Start ==
  /\ pc = "start"
  /\ child' = "running"
  /\ waiter' = "spawned"
  /\ notifier' = IF SupportsNotify THEN "opening" ELSE "none"
  /\ Goto(IF SupportsNotify THEN "select" ELSE "look")
  /\ UNCHANGED <<fs, served, says, processState, late, killed>>

(* FileChanged.  A directory nothing is mounted on is the one it was.  One *)
(* whose server is gone cannot be read, and that counts as a change.  In a *)
(* mount the Lstat is a question to the child.                             *)
Look ==
  /\ pc = "look"
  /\ \/ fs = "empty" /\ Goto("checkExit")
     \/ fs = "mounted" /\ Goto("answer")
     \/ fs = "broken" /\ Goto("release")
  /\ UNCHANGED <<server, reaper, notifier, late, killed>>

(* The child answers with another directory, or it is gone by now and the  *)
(* Lstat fails: a change in both cases.                                    *)
Answer ==
  /\ pc = "answer"
  /\ Goto("release")
  /\ UNCHANGED <<server, reaper, notifier, late, killed>>

(* Mistakes: the error is the nil that Start returned; it is not looked at.*)
ExitWrapsNil ==
  /\ pc = "checkExit"
  /\ Goto(IF processState THEN "release" ELSE "checkClock")
  /\ UNCHANGED <<server, reaper, notifier, late, killed>>

NoClock ==
  /\ pc = "checkClock"
  /\ Goto("look")
  /\ UNCHANGED <<server, reaper, notifier, late, killed>>

(* cmd.ProcessState is written by another goroutine without a lock: the    *)
(* caller may still read nil.                                              *)
CheckExit ==
  /\ pc = "checkExit"
  /\ \/ processState /\ Return("err")
     \/ Goto("checkClock")
  /\ UNCHANGED <<server, reaper, notifier, late, killed>>

(* A mistake: give up without killing the child.                           *)
GiveUpOnly ==
  /\ pc = "checkClock"
  /\ IF late THEN Return("err") ELSE Goto("look")
  /\ UNCHANGED <<server, reaper, notifier, late, killed>>

(* os.Process.Kill fails for a process that was waited for.  errors.Wrapf  *)
(* of the nil that it returns otherwise is nil: the function then returns  *)
(* no error, and the caller goes on as after a success.  squashFuse wraps  *)
(* the error of Kill, erofsFuse that of Start, which is nil.               *)
KillStrikes ==
  IF child = "running"
  THEN child' = "zombie" /\ fs' = IF fs = "mounted" THEN "broken" ELSE fs
  ELSE UNCHANGED <<child, fs>>

CheckClock ==
  /\ pc = "checkClock"
  /\ IF late
     THEN /\ \/ child = "reaped" /\ Return("err")
             \/ Goto("release")
          /\ killed' = TRUE
          /\ KillStrikes
     ELSE Goto("look") /\ UNCHANGED <<killed, child, fs>>
  /\ UNCHANGED <<served, says, reaper, notifier, late>>

(* Mistakes: any byte means success; go on waiting after a complaint.      *)
SelectAnyByte ==
  /\ pc = "select" /\ notifier = "sending"
  /\ notifier' = "ended"
  /\ Goto("release")
  /\ UNCHANGED <<server, reaper, late, killed>>

SelectGoesOn ==
  /\ pc = "select" /\ notifier = "sending"
  /\ IF says = "s" THEN Goto("release") /\ notifier' = "ended"
                   ELSE UNCHANGED caller /\ notifier' = "reading"
  /\ UNCHANGED <<server, reaper, late, killed>>

(* The two cases of select; when both are ready either is taken.  Kill     *)
(* after Wait fails, and its error is returned.                            *)
SelectAlarm ==
  /\ pc = "select" /\ waiter = "done"
  /\ Return("err")
  /\ UNCHANGED <<server, reaper, notifier, late, killed>>

SelectNotify ==
  /\ pc = "select" /\ notifier = "sending"
  /\ notifier' = "ended"
  /\ IF says = "s" THEN Goto("release") ELSE Return("err")
  /\ UNCHANGED <<server, reaper, late, killed>>

(* Process.Release; a Wait that has not begun by then will fail, and       *)
(* nobody waits for the child.                                             *)
Release ==
  /\ pc = "release"
  /\ Return("ok")
  /\ waiter' = IF waiter = "spawned" THEN "done" ELSE waiter
  /\ UNCHANGED <<server, processState, notifier, late, killed>>

Caller ==
  \/ StartFails \/ Start \/ Look \/ Answer \/ CheckExit \/ CheckClock
  \/ SelectAlarm \/ SelectNotify \/ Release

-----------------------------------------------------------------------------
(* The other goroutines.                                                   *)

WaitBegins ==
  /\ waiter = "spawned"
  /\ waiter' = "waiting"
  /\ UNCHANGED <<caller, server, processState, notifier, late, killed>>

WaitReaps ==
  /\ waiter = "waiting" /\ child = "zombie"
  /\ child' = "reaped"
  /\ processState' = TRUE
  /\ UNCHANGED <<caller, fs, served, says, waiter, notifier, late, killed>>

CloseAlarm ==
  /\ waiter = "waiting" /\ child = "reaped"
  /\ waiter' = "done"
  /\ UNCHANGED <<caller, server, processState, notifier, late, killed>>

(* os.Open waits for the writer.  The pipe is gone once squashFuse has     *)
(* returned.                                                               *)
OpenPipe ==
  /\ notifier = "opening"
  /\ \/ says # "nothing" /\ notifier' = "reading"
     \/ pc \in {"release", "done"} /\ notifier' = "ended"
  /\ UNCHANGED <<caller, server, reaper, late, killed>>

(* f.Read gets the byte and the goroutine offers it to the caller, for     *)
(* ever if the caller has returned.                                        *)
ReadPipe ==
  /\ notifier = "reading"
  /\ notifier' = "sending"
  /\ UNCHANGED <<caller, server, reaper, late, killed>>

Goroutines == WaitBegins \/ WaitReaps \/ CloseAlarm \/ OpenPipe \/ ReadPipe

-----------------------------------------------------------------------------
(* The child and the clock.                                                *)

ChildMounts ==
  /\ child = "running" /\ ~served /\ says = "nothing"
  /\ fs' = "mounted" /\ served' = TRUE
  /\ UNCHANGED <<caller, child, says, reaper, notifier, late, killed>>

(* 's' after the mount, 'f' when it could not be made.                     *)
ChildSays ==
  /\ SupportsNotify /\ child = "running" /\ says = "nothing"
  /\ says' = IF served THEN "s" ELSE "f"
  /\ UNCHANGED <<caller, child, fs, served, reaper, notifier, late, killed>>

(* Exit of a server that was unmounted, or sudden death of one.            *)
ChildEnds ==
  /\ child = "running"
  /\ child' = "zombie"
  /\ fs' \in IF fs = "mounted" THEN {"empty", "broken"} ELSE {fs}
  /\ UNCHANGED <<caller, served, says, reaper, notifier, late, killed>>

TimePasses ==
  /\ ~late /\ pc # "start"
  /\ late' = TRUE
  /\ UNCHANGED <<caller, server, reaper, notifier, killed>>

Ended == pc = "done" /\ UNCHANGED vars

Next ==
  \/ Caller \/ Goroutines
  \/ ChildMounts \/ ChildSays \/ ChildEnds
  \/ TimePasses \/ Ended

Spec == Init /\ [][Next]_vars

(* The Go scheduler runs a goroutine that can run and time passes; what    *)
(* the child does nobody knows, and an Lstat in its mount waits for it.    *)
Hangs == pc = "answer" /\ fs = "mounted"

FairSpec ==
  /\ Spec
  /\ WF_vars(Caller /\ ~Hangs)
  /\ WF_vars(WaitBegins) /\ WF_vars(WaitReaps) /\ WF_vars(CloseAlarm)
  /\ WF_vars(OpenPipe) /\ WF_vars(ReadPipe)
  /\ WF_vars(TimePasses)

-----------------------------------------------------------------------------
(* A mount that is reported was made, by this child, and the child has     *)
(* said so where there is a pipe, unless the caller gave up on the child   *)
(* (see GaveUpIsAnError): a child that dies before it has mounted, or that *)
(* complains, is not taken for a mount (squashfs.go:258-277).  It may have *)
(* died since: a broken mountpoint passes for a mount (utils.go:109-112).  *)
OkWasServed ==
  ret = "ok" /\ ~killed => served /\ (SupportsNotify => says = "s")

(* After an error no server serves the directory, and none will: nobody    *)
(* would unmount it (squashfs.go:220-290, common/mount.go:37-40).  The     *)
(* mountpoint of a server that mounted and died in time may stay behind,   *)
(* broken, and is nobody's to unmount.                                     *)
ErrorLeavesNoServer ==
  ret = "err" => fs # "mounted" /\ (child = "running" => says = "f")

(* An inductive invariant that implies the two: how far the child can be   *)
(* when the caller is where it is.  Behind an error the child either runs  *)
(* no more, or has said that it could not mount, after which it does not.  *)
FuseInv ==
  /\ FuseTypeOK
  /\ ret = "none" <=> pc # "done"
  /\ child = "none" => pc \in {"start", "done"} /\ waiter = "none"
  /\ pc = "start" => child = "none" /\ ~killed
  /\ fs # "empty" => served
  /\ fs = "mounted" => child = "running"
  /\ served => child # "none"
  /\ says = "s" => served
  /\ says = "f" => ~served
  /\ notifier \in {"reading", "sending"} => says # "nothing"
  /\ processState => child = "reaped"
  /\ waiter = "done" => child = "reaped" \/ pc = "done"
  /\ pc \in {"look", "answer", "checkExit", "checkClock"} => ~SupportsNotify
  /\ pc = "answer" => served
  /\ (pc = "release" \/ ret = "ok") /\ ~killed =>
       served /\ (SupportsNotify => says = "s")
  /\ ret = "err" => child # "running" \/ says = "f"

(* "now poll/wait for one of 3 things to happen ... c. a timeout           *)
(* (timeLimit) was hit" (squashfs.go:225-231): where the directory is      *)
(* polled the function returns, or the child has mounted, hangs, and       *)
(* leaves the Lstat of the poll unanswered, which no time limit ends.      *)
FuseReturns == SupportsNotify \/ <>(pc = "done") \/ <>[]Hangs

(* When the child exits or writes to the pipe the caller gets to know.     *)
ChildIsHeard == child = "zombie" \/ says # "nothing" ~> pc = "done"

(* "Gave up on squashFuse mount of %s" (squashfs.go:281): a timeout is an  *)
(* error.                                                                  *)
GaveUpIsAnError == killed => ret # "ok"
=============================================================================

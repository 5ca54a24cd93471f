---------------------------- MODULE DriverShutdown ----------------------------
(***************************************************************************)
(* The graceful shutdown of the driver in direct mode. SIGTERM stops the   *)
(* gRPC server, waits up to 30 s for the handlers, and then UnmountAll     *)
(* takes down every mount in mountContext, one goroutine each, without the *)
(* volume locks: beside handlers that the forced stop left behind, beside  *)
(* reapers, and beside the boot remount when the signal came before the    *)
(* server was up. Then, or after 90 s, the process exits.                  *)
(***************************************************************************)
EXTENDS DirectNode

VARIABLES
  open,       \* nobody has stopped the gRPC server
  sweeping,   \* UnmountAll runs, or has ended
  sweep,      \* where UnmountAll's goroutine for each target is
  cut         \* history: targets somebody else worked on since UnmountAll began

sweepVars == <<open, sweeping, sweep, cut>>
allVars   == <<vars, sweepVars>>

SweepPCs == {"none", "unmount", "cleanup", "forget", "done", "failed"}

ShutdownTypeOK ==
  /\ TypeOK
  /\ open \in BOOLEAN
  /\ sweeping \in BOOLEAN
  /\ sweep \in [Targets -> SweepPCs]
  /\ cut \subseteq Targets

ShutdownInit ==
  /\ Init
  /\ open = TRUE
  /\ sweeping = FALSE
  /\ sweep = [t \in Targets |-> "none"]
  /\ cut = {}

SweepGoto(t, from, to) ==
  /\ sweep[t] = from
  /\ sweep' = [sweep EXCEPT ![t] = to]
  /\ UNCHANGED <<open, sweeping, cut>>

-----------------------------------------------------------------------------
(* A stopped server takes no new call.                                     *)
BeginCall(h, t, o) ==
  /\ open
  /\ Begin(h, t, o)
  /\ cut' = IF sweeping THEN cut \cup {t} ELSE cut
  /\ UNCHANGED <<open, sweeping, sweep>>

(* Nothing can be mounted on a directory the sweep has removed.            *)
MountAttempt(h) ==
  /\ MountStep(h)
  /\ kernel[tgt[h]] = "absent" => kernel' = kernel

(* What goes on as before, the signal notwithstanding.                     *)
GoOn ==
  /\ \/ \E h \in Calls : Abandon(h) \/ CallStep(h) \/ MountAttempt(h)
     \/ \E t \in Targets : LingerEnds(t)
     \/ BootStep
  /\ UNCHANGED sweepVars

(* UnmountAll clones mountContext; a target that is in it gets a goroutine.*)
StartSweep ==
  /\ sweeping' = TRUE
  /\ sweep' = [t \in Targets |-> IF t \in mctx THEN "unmount" ELSE "none"]
  /\ cut' = boot \cup {t \in Targets : ~Quiet(t)}

(* Variant: the volumes are unmounted before the server is stopped.        *)
UnmountFirst ==
  /\ open /\ ~sweeping
  /\ crashes < MaxCrashes
  /\ kernel' = [t \in Targets |-> IF t \in mctx THEN "absent" ELSE kernel[t]]
  /\ open' = FALSE
  /\ UNCHANGED <<sweeping, sweep, cut, handlerVars, mnt, waiting, driverVars, store, linger, acked, logged, bootVars>>

(* SIGTERM: GracefulStop refuses new calls and waits. While the states are *)
(* still being remounted there is no server, and UnmountAll runs at once.  *)
Terminate ==
  /\ open /\ ~sweeping
  /\ crashes < MaxCrashes
  /\ \/ serving /\ open' = FALSE /\ UNCHANGED <<sweeping, sweep, cut>>
     \/ ~serving /\ StartSweep /\ UNCHANGED open
  /\ UNCHANGED vars

(* Every handler has ended, or, 30 s later, ForceStop cuts off the callers *)
(* that still wait; the handlers themselves run on. By then none waits for *)
(* a lock.                                                                 *)
StopServer ==
  /\ ~open /\ ~sweeping
  /\ \A h \in waiting : pc[h] # "lock"
  /\ StartSweep
  /\ waiting' = {}
  /\ acked' = [t \in Targets |-> IF \E h \in waiting : tgt[h] = t /\ op[h] = "publish"
                                  THEN "unknown" ELSE acked[t]]
  /\ UNCHANGED <<open, handlerVars, mnt, driverVars, store, kernel, linger, logged, bootVars>>

(* unmountVolume of the entry in the clone. The entry may be out of date by*)
(* now: then a newer mount at the path keeps its context.                  *)
SweepUnmount(t) ==
  /\ SweepGoto(t, "unmount", "cleanup")
  /\ loaded' = loaded \ {VolumeOf[t]}
  /\ \/ /\ kernel' = [kernel EXCEPT ![t] = IF @ \in Served THEN "dir" ELSE @]
        /\ UNCHANGED linger
     \/ /\ \/ kernel' = [kernel EXCEPT ![t] = IF @ \in Served THEN "dead" ELSE @]
           \/ t \in cut /\ UNCHANGED kernel
        /\ linger' \in {linger, [linger EXCEPT ![t] = "running"]}
  /\ UNCHANGED <<handlerVars, mnt, waiting, locks, mctx, store, acked, logged, bootVars>>

(* Variant: UnmountAll relies on the graceful unmount.                     *)
SweepWithoutForce(t) ==
  /\ SweepGoto(t, "cleanup", "forget")
  /\ UNCHANGED <<handlerVars, mnt, waiting, driverVars, store, kernel, linger, acked, logged, bootVars>>

SweepCleanup(t) ==
  /\ \/ /\ SweepGoto(t, "cleanup", "forget")
        /\ kernel' = [kernel EXCEPT ![t] = "absent"]
     \/ /\ "detach" \in Strays
        /\ SweepGoto(t, "cleanup", "failed")
        /\ UNCHANGED kernel
  /\ UNCHANGED <<handlerVars, mnt, waiting, driverVars, store, linger, acked, logged, bootVars>>

(* deleteMountContext. The Secret stays: a restart mounts the target again.*)
SweepForget(t) ==
  /\ SweepGoto(t, "forget", "done")
  /\ mctx' = mctx \ {t}
  /\ UNCHANGED <<handlerVars, mnt, waiting, locks, loaded, store, kernel, linger, acked, logged, bootVars>>

SweepStep(t) == SweepUnmount(t) \/ SweepCleanup(t) \/ SweepForget(t)

(* The process ends: it exits after UnmountAll, or the 90 s are over, or it*)
(* dies at any other time.                                                 *)
Exit ==
  /\ Crash
  /\ open' = TRUE
  /\ sweeping' = FALSE
  /\ sweep' = [t \in Targets |-> "none"]
  /\ cut' = {}

ShutdownNext ==
  \/ \E h \in Calls, t \in Targets, o \in {"publish", "unpublish"} : BeginCall(h, t, o)
  \/ GoOn
  \/ Terminate \/ StopServer
  \/ \E t \in Targets : SweepStep(t)
  \/ Exit

ShutdownSpec == ShutdownInit /\ [][ShutdownNext]_allVars

ShutdownLiveSpec ==
  /\ ShutdownSpec
  /\ \A h \in Calls : WF_allVars(CallStep(h) /\ UNCHANGED sweepVars)
  /\ WF_allVars(BootStep /\ UNCHANGED sweepVars)

-----------------------------------------------------------------------------
(* UnmountAll leaves nothing behind for the exit of the process to turn    *)
(* into a dead FUSE mount, but on targets where a handler, a reaper or the *)
(* boot remount is at work beside it: what it has done is unmounted and    *)
(* forgotten, and what it did not find had no live mount.                  *)
SweepComplete ==
  \A t \in Targets \ cut :
    /\ sweep[t] = "done" => kernel[t] \in {"absent", "dir"} /\ t \notin mctx
    /\ sweeping /\ sweep[t] = "none" => kernel[t] # "live"

(* A target kubelet believes published has its mount, until UnmountAll     *)
(* begins: stopping the server takes nothing from anybody. And again after *)
(* the exit, once the next driver has remounted it, unless an error was    *)
(* logged: UnmountAll leaves the Secrets alone.                            *)
ServedUntilSwept == sweeping \/ PublishedIsServed
=============================================================================

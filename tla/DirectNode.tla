----------------------------- MODULE DirectNode -----------------------------
(***************************************************************************)
(* The node service in direct mode: NodePublishVolume mounts an rclone     *)
(* FUSE file system at the pod's target path, NodeUnpublishVolume takes it *)
(* down, and a restarted driver remounts what its Secrets say.             *)
(*                                                                         *)
(* A call h is one gRPC request and the goroutines it starts: the handler  *)
(* (pc), the background mount (mnt) and, once the handler has handed off,  *)
(* the reaper (pc again: the handler has answered and is gone).            *)
(***************************************************************************)
EXTENDS Naturals

CONSTANTS
  Targets,       \* target paths, one per pod that uses a volume
  Volumes,
  VolumeOf,      \* the volume published at a target
  Calls,         \* calls the driver can be working on at once
  NoTarget,      \* the target of an idle call
  LockTries,     \* volumeLockMaxRetries
  MaxCrashes,    \* bound: crashes of the driver
  Strays         \* how a mount may stay behind: a forced unmount fails ("detach"),
                 \* handleRcloneDaemon gives up on a mount that is up ("daemon")

ASSUME ConstantsAssumption ==
  /\ VolumeOf \in [Targets -> Volumes]
  /\ NoTarget \notin Targets
  /\ LockTries \in Nat \ {0}
  /\ MaxCrashes \in Nat
  /\ Strays \subseteq {"detach", "daemon"}

VARIABLES
  pc, op, tgt,   \* the handler, its request and its target path
  tries,         \* failed TryAcquire attempts
  mnt,           \* the background mount goroutine of the call
  waiting,       \* calls whose caller still waits for the answer
  locks,         \* VolumeLocks.locks: the keys that are held
  loaded,        \* volumes whose config sections are in rclone's LoadedData
  mctx,          \* NodeServer.mountContext: the target paths with an entry
  store,         \* targets with a mount-state Secret
  kernel,        \* what the kernel has at each target path
  linger,        \* a graceful unmount that outlived its unpublish
  acked,         \* what kubelet knows of each target
  logged,        \* history: the error about each target that the driver has only logged
                 \* since it last mounted it: the Secret ("save") or the mount ("mount")
  boot,          \* saved states that the starting driver has yet to remount
  serving,       \* the gRPC server listens
  crashes

handlerVars == <<pc, op, tgt, tries>>
driverVars  == <<locks, loaded, mctx>>
bootVars    == <<boot, serving, crashes>>
vars == <<handlerVars, mnt, waiting, driverVars, store, kernel, linger, acked, logged, bootVars>>

-----------------------------------------------------------------------------
(* "prepare".."releaseErr" run between acquireVolumeLock and Release.      *)
Locked == {"prepare", "load", "wait", "save", "drop", "reap", "detach",
           "unmount", "cleanup", "forget", "releaseOk", "releaseErr"}
PCs == Locked \cup {"idle", "lock"}

(* "live": mounted; "dead": mounted, but the mount's context is cancelled; *)
(* "corrupt": mounted, the FUSE server is gone.                            *)
Served  == {"live", "dead"}
Kernels == Served \cup {"absent", "dir", "corrupt"}

TypeOK ==
  /\ pc \in [Calls -> PCs]
  /\ op \in [Calls -> {"publish", "unpublish"}]
  /\ tgt \in [Calls -> Targets \cup {NoTarget}]
  /\ \A h \in Calls : pc[h] # "idle" => tgt[h] \in Targets
  /\ tries \in [Calls -> 0 .. LockTries - 1]
  /\ mnt \in [Calls -> {"none", "newfs", "mounting", "ok", "err"}]
  /\ waiting \subseteq Calls
  /\ locks \subseteq Targets
  /\ loaded \subseteq Volumes
  /\ mctx \subseteq Targets
  /\ store \subseteq Targets
  /\ kernel \in [Targets -> Kernels]
  /\ linger \in [Targets -> {"none", "running", "struck"}]
  /\ acked \in [Targets -> {"none", "published", "unknown", "tearing"}]
  /\ logged \in [Targets -> {"none", "save", "mount"}]
  /\ boot \subseteq Targets
  /\ serving \in BOOLEAN
  /\ crashes \in 0 .. MaxCrashes

Vol(h) == VolumeOf[tgt[h]]
Quiet(t) == \A h \in Calls : tgt[h] # t
Holders == {h \in Calls : pc[h] \in Locked}

Goto(h, from, to) ==
  /\ pc[h] = from
  /\ pc' = [pc EXCEPT ![h] = to]
  /\ UNCHANGED <<op, tgt, tries, bootVars>>

(* The caller of h, if it still waits, learns a: "published", "none" or an *)
(* error, after which a published target is unknown to kubelet.            *)
Answer(h, a) ==
  /\ waiting' = waiting \ {h}
  /\ acked' = IF h \in waiting /\ (a # "unknown" \/ op[h] = "publish")
                THEN [acked EXCEPT ![tgt[h]] = a] ELSE acked

EndCall(h) ==
  /\ pc' = [pc EXCEPT ![h] = "idle"]
  /\ op' = [op EXCEPT ![h] = "publish"]
  /\ tgt' = [tgt EXCEPT ![h] = NoTarget]
  /\ tries' = [tries EXCEPT ![h] = 0]

Init ==
  /\ pc = [h \in Calls |-> "idle"]
  /\ op = [h \in Calls |-> "publish"]
  /\ tgt = [h \in Calls |-> NoTarget]
  /\ tries = [h \in Calls |-> 0]
  /\ mnt = [h \in Calls |-> "none"]
  /\ waiting = {}
  /\ locks = {}
  /\ loaded = {}
  /\ mctx = {}
  /\ store = {}
  /\ kernel = [t \in Targets |-> "absent"]
  /\ linger = [t \in Targets |-> "none"]
  /\ acked = [t \in Targets |-> "none"]
  /\ logged = [t \in Targets |-> "none"]
  /\ boot = {}
  /\ serving = TRUE
  /\ crashes = 0

-----------------------------------------------------------------------------
(* Kubelet has one call at a time on a target, and does not publish again  *)
(* at a path it has begun to tear down until an unpublish succeeded.       *)
Begin(h, t, o) ==
  /\ serving
  /\ pc[h] = "idle"
  /\ \A g \in waiting : tgt[g] # t
  /\ o = "publish" => acked[t] # "tearing"
  /\ pc' = [pc EXCEPT ![h] = "lock"]
  /\ op' = [op EXCEPT ![h] = o]
  /\ tgt' = [tgt EXCEPT ![h] = t]
  /\ waiting' = waiting \cup {h}
  /\ acked' = IF o = "unpublish" THEN [acked EXCEPT ![t] = "tearing"] ELSE acked
  /\ UNCHANGED <<tries, mnt, driverVars, store, kernel, linger, logged, bootVars>>

(* The caller gives up (ctx.Done). Waiting for the lock takes under one    *)
(* second, far less than kubelet's deadline, so not there.                 *)
Abandon(h) ==
  /\ h \in waiting
  /\ pc[h] # "lock"
  /\ Answer(h, "unknown")
  /\ UNCHANGED <<handlerVars, mnt, driverVars, store, kernel, linger, logged, bootVars>>

Acquire(h) ==
  /\ Goto(h, "lock", IF op[h] = "publish" THEN "prepare" ELSE "unmount")
  /\ tgt[h] \notin locks
  /\ locks' = locks \cup {tgt[h]}
  /\ UNCHANGED <<mnt, waiting, loaded, mctx, store, kernel, linger, acked, logged>>

(* Variant: the attempts are not counted.                                  *)
RetryForever(h) ==
  /\ pc[h] = "lock"
  /\ tgt[h] \in locks
  /\ tries' = [tries EXCEPT ![h] = @ + 1]
  /\ UNCHANGED <<pc, op, tgt, mnt, waiting, driverVars, store, kernel, linger, acked, logged, bootVars>>

Retry(h) ==
  /\ pc[h] = "lock"
  /\ tgt[h] \in locks
  /\ tries[h] < LockTries - 1
  /\ tries' = [tries EXCEPT ![h] = @ + 1]
  /\ UNCHANGED <<pc, op, tgt, mnt, waiting, driverVars, store, kernel, linger, acked, logged, bootVars>>

(* The last attempt failed: Aborted, nothing was touched.                  *)
RefuseBusy(h) ==
  /\ pc[h] = "lock"
  /\ tgt[h] \in locks
  /\ tries[h] = LockTries - 1
  /\ EndCall(h)
  /\ Answer(h, "unknown")
  /\ UNCHANGED <<mnt, driverVars, store, kernel, linger, logged, bootVars>>

(* The deferred Release, then the answer reaches a caller that still waits.*)
Release(h) ==
  /\ \/ pc[h] = "releaseOk"  /\ Answer(h, IF op[h] = "publish" THEN "published" ELSE "none")
     \/ pc[h] = "releaseErr" /\ Answer(h, "unknown")
  /\ locks' = locks \ {tgt[h]}
  /\ EndCall(h)
  /\ UNCHANGED <<mnt, loaded, mctx, store, kernel, linger, logged, bootVars>>

-----------------------------------------------------------------------------
(* NodePublishVolume. A mounted path is read: ReadDir may fail whatever    *)
(* the mount's state, since it reaches the remote.                         *)
AlreadyPublished(h) ==
  /\ Goto(h, "prepare", "releaseOk")
  /\ kernel[tgt[h]] \in Served
  /\ tgt[h] \in mctx
  /\ UNCHANGED <<mnt, waiting, driverVars, store, kernel, linger, acked, logged>>

(* Variant: a corrupted or unreadable mount is left in place.              *)
PrepareKeepsStale(h) ==
  /\ Goto(h, "prepare", "load")
  /\ kernel' = [kernel EXCEPT ![tgt[h]] = IF @ = "absent" THEN "dir" ELSE @]
  /\ UNCHANGED <<mnt, waiting, driverVars, store, linger, acked, logged>>

PrepareTarget(h) ==
  /\ Goto(h, "prepare", "load")
  /\ kernel' = [kernel EXCEPT ![tgt[h]] = "dir"]
  /\ UNCHANGED <<mnt, waiting, driverVars, store, linger, acked, logged>>

(* Parameters, stat, forced cleanup or MkdirAll failed; only the last one, *)
(* after a cleanup, has changed the path.                                  *)
PrepareFails(h) ==
  /\ Goto(h, "prepare", "releaseErr")
  /\ \/ UNCHANGED kernel
     \/ /\ kernel[tgt[h]] \notin {"absent", "dir"}
        /\ kernel' = [kernel EXCEPT ![tgt[h]] = "absent"]
  /\ UNCHANGED <<mnt, waiting, driverVars, store, linger, acked, logged>>

(* loadRcloneConfig, then the mount goroutine and the timer start.         *)
LoadConfig(h) ==
  /\ Goto(h, "load", "wait")
  /\ loaded' = loaded \cup {Vol(h)}
  /\ mnt' = [mnt EXCEPT ![h] = "newfs"]
  /\ UNCHANGED <<waiting, locks, mctx, store, kernel, linger, acked, logged>>

(* UpdateRemote may fail with some sections already set: nothing has been  *)
(* registered to remove those.                                             *)
LoadConfigFails(h) ==
  /\ Goto(h, "load", "releaseErr")
  /\ loaded' \in {loaded, loaded \cup {Vol(h)}}
  /\ UNCHANGED <<mnt, waiting, locks, mctx, store, kernel, linger, acked, logged>>

(* createAndMountFilesystem in the background: fs.NewFs reads the config   *)
(* sections, mountPoint.Mount ignores the context.                         *)
NewFs(h) ==
  /\ mnt[h] = "newfs"
  /\ \/ /\ Vol(h) \in loaded
        /\ mnt' = [mnt EXCEPT ![h] = "mounting"]
     \/ mnt' = [mnt EXCEPT ![h] = "err"]
  /\ UNCHANGED <<handlerVars, waiting, driverVars, store, kernel, linger, acked, logged, bootVars>>

Mount(h) ==
  /\ mnt[h] = "mounting"
  /\ mnt' = [mnt EXCEPT ![h] = "ok"]
  /\ kernel' = [kernel EXCEPT ![tgt[h]] = IF pc[h] = "wait" THEN "live" ELSE "dead"]
  /\ linger' = [linger EXCEPT ![tgt[h]] = IF @ = "struck" THEN "none" ELSE @]
  /\ UNCHANGED <<handlerVars, waiting, driverVars, store, acked, logged, bootVars>>

(* Mount failed, or it came up and handleRcloneDaemon gave up on it.       *)
MountFails(h) ==
  /\ mnt[h] = "mounting"
  /\ mnt' = [mnt EXCEPT ![h] = "err"]
  /\ \/ UNCHANGED <<kernel, logged>>
     \/ /\ "daemon" \in Strays
        /\ kernel' = [kernel EXCEPT ![tgt[h]] = "dead"]
        /\ logged' = [logged EXCEPT ![tgt[h]] = "mount"]
  /\ UNCHANGED <<handlerVars, waiting, driverVars, store, linger, acked, bootVars>>

(* The three cases of the handler's select.                                *)
CollectMount(h) ==
  /\ Goto(h, "wait", "save")
  /\ mnt[h] = "ok"
  /\ mnt' = [mnt EXCEPT ![h] = "none"]
  /\ mctx' = mctx \cup {tgt[h]}
  /\ UNCHANGED <<waiting, locks, loaded, store, kernel, linger, acked, logged>>

(* Variant: the result's error is not looked at.                           *)
CollectAnything(h) ==
  /\ Goto(h, "wait", "save")
  /\ mnt[h] = "err"
  /\ mnt' = [mnt EXCEPT ![h] = "none"]
  /\ UNCHANGED <<waiting, driverVars, store, kernel, linger, acked, logged>>

CollectFailure(h) ==
  /\ Goto(h, "wait", "drop")
  /\ mnt[h] = "err"
  /\ mnt' = [mnt EXCEPT ![h] = "none"]
  /\ UNCHANGED <<waiting, driverVars, store, kernel, linger, acked, logged>>

(* Variants: the deferred Release, or the deferred cleanupConfigRemotes,   *)
(* ignores handOff; the attempt is not cancelled; the timer is forgotten,  *)
(* so the handler waits for the mount.                                     *)
HandOffReleases(h) ==
  /\ Goto(h, "wait", "reap")
  /\ Answer(h, "unknown")
  /\ kernel' = [kernel EXCEPT ![tgt[h]] = IF @ = "live" THEN "dead" ELSE @]
  /\ locks' = locks \ {tgt[h]}
  /\ UNCHANGED <<mnt, loaded, mctx, store, linger, logged>>

HandOffDropsRemotes(h) ==
  /\ Goto(h, "wait", "reap")
  /\ Answer(h, "unknown")
  /\ kernel' = [kernel EXCEPT ![tgt[h]] = IF @ = "live" THEN "dead" ELSE @]
  /\ loaded' = loaded \ {Vol(h)}
  /\ UNCHANGED <<mnt, locks, mctx, store, linger, logged>>

HandOffWithoutCancel(h) ==
  /\ Goto(h, "wait", "reap")
  /\ Answer(h, "unknown")
  /\ UNCHANGED <<mnt, driverVars, store, kernel, linger, logged>>

HandOffAfterMount(h) ==
  /\ mnt[h] \in {"ok", "err"}
  /\ Goto(h, "wait", "reap")
  /\ Answer(h, "unknown")
  /\ UNCHANGED <<mnt, driverVars, store, kernel, linger, logged>>

(* The timer or ctx.Done: answer now, cancel the attempt, and leave the    *)
(* lock, the sections and the mount to the reaper.                         *)
HandOff(h) ==
  /\ Goto(h, "wait", "reap")
  /\ Answer(h, "unknown")
  /\ kernel' = [kernel EXCEPT ![tgt[h]] = IF @ = "live" THEN "dead" ELSE @]
  /\ UNCHANGED <<mnt, driverVars, store, linger, logged>>

(* SaveState's error is only logged; a failed request may have been served.*)
SaveState(h) ==
  /\ Goto(h, "save", "releaseOk")
  /\ \/ /\ store' = store \cup {tgt[h]}
        /\ logged' = [logged EXCEPT ![tgt[h]] = "none"]
     \/ /\ store' \in {store, store \cup {tgt[h]}}
        /\ logged' = [logged EXCEPT ![tgt[h]] = "save"]
  /\ UNCHANGED <<mnt, waiting, driverVars, kernel, linger, acked>>

(* Variant: the reaper of a failed mount returns without the Release.      *)
ReapForgets(h) ==
  /\ mnt[h] = "ok"
  /\ Goto(h, "reap", "detach")
  /\ mnt' = [mnt EXCEPT ![h] = "none"]
  /\ UNCHANGED <<waiting, driverVars, store, kernel, linger, acked, logged>>

(* reapOrphanMount *)
Reap(h) ==
  /\ \/ mnt[h] = "err" /\ Goto(h, "reap", "drop")
     \/ mnt[h] = "ok"  /\ Goto(h, "reap", "detach")
  /\ mnt' = [mnt EXCEPT ![h] = "none"]
  /\ UNCHANGED <<waiting, driverVars, store, kernel, linger, acked, logged>>

(* forceUnmountBounded only logs a failure.                                *)
DetachOrphan(h) ==
  /\ Goto(h, "detach", "drop")
  /\ \/ /\ kernel' = [kernel EXCEPT ![tgt[h]] = "absent"]
        /\ UNCHANGED logged
     \/ /\ "detach" \in Strays
        /\ logged' = [logged EXCEPT ![tgt[h]] = "mount"]
        /\ UNCHANGED kernel
  /\ UNCHANGED <<mnt, waiting, driverVars, store, linger, acked>>

(* cleanupConfigRemotes: the deferred one of a failed publish, or the      *)
(* reaper's. The sections are named after the volume, not the target.      *)
DropRemotes(h) ==
  /\ Goto(h, "drop", "releaseErr")
  /\ loaded' = loaded \ {Vol(h)}
  /\ UNCHANGED <<mnt, waiting, locks, mctx, store, kernel, linger, acked, logged>>

-----------------------------------------------------------------------------
(* NodeUnpublishVolume: unmountVolume in two steps, then the bookkeeping.  *)
(* The graceful unmount may succeed, fail, or outlast its timeout and go   *)
(* on in its goroutine (one per target, a bound).                          *)
GracefulUnmount(h) ==
  /\ Goto(h, "unmount", "cleanup")
  /\ tgt[h] \in mctx
  /\ loaded' = loaded \ {Vol(h)}
  /\ \/ /\ kernel' = [kernel EXCEPT ![tgt[h]] = IF @ \in Served THEN "dir" ELSE @]
        /\ UNCHANGED linger
     \/ /\ kernel' = [kernel EXCEPT ![tgt[h]] = IF @ \in Served THEN "dead" ELSE @]
        /\ linger' \in {linger, [linger EXCEPT ![tgt[h]] = "running"]}
  /\ UNCHANGED <<mnt, waiting, locks, mctx, store, acked, logged>>

SkipGraceful(h) ==
  /\ Goto(h, "unmount", "cleanup")
  /\ tgt[h] \notin mctx
  /\ UNCHANGED <<mnt, waiting, driverVars, store, kernel, linger, acked, logged>>

(* CleanupMountWithForce: unmounts and removes the directory.              *)
ForceCleanup(h) ==
  /\ \/ /\ Goto(h, "cleanup", "forget")
        /\ kernel' = [kernel EXCEPT ![tgt[h]] = "absent"]
     \/ /\ "detach" \in Strays
        /\ Goto(h, "cleanup", "releaseErr")
        /\ UNCHANGED kernel
  /\ UNCHANGED <<mnt, waiting, driverVars, store, linger, acked, logged>>

(* Variant: DeleteState's error is only logged, as NodeUnstageVolume does. *)
ForgetLogsError(h) ==
  /\ mctx' = mctx \ {tgt[h]}
  /\ logged' = [logged EXCEPT ![tgt[h]] = "none"]
  /\ Goto(h, "forget", "releaseOk")
  /\ store' \in {store, store \ {tgt[h]}}
  /\ UNCHANGED <<mnt, waiting, locks, loaded, kernel, linger, acked>>

Forget(h) ==
  /\ mctx' = mctx \ {tgt[h]}
  /\ logged' = [logged EXCEPT ![tgt[h]] = "none"]
  /\ \/ Goto(h, "forget", "releaseOk")  /\ store' = store \ {tgt[h]}
     \/ Goto(h, "forget", "releaseErr") /\ store' \in {store, store \ {tgt[h]}}
  /\ UNCHANGED <<mnt, waiting, locks, loaded, kernel, linger, acked>>

(* An unmount that outlived its unpublish detaches whatever is at the path *)
(* by then.                                                                *)
LingerEnds(t) ==
  /\ linger[t] = "running"
  /\ kernel' = [kernel EXCEPT ![t] = IF @ \in Served THEN "dir" ELSE @]
  /\ linger' = [linger EXCEPT ![t] = IF kernel[t] \in Served THEN "struck" ELSE "none"]
  /\ UNCHANGED <<handlerVars, mnt, waiting, driverVars, store, acked, logged, bootVars>>

-----------------------------------------------------------------------------
(* The driver dies with everything it held in memory, and with it the FUSE *)
(* servers. The new one reads the Secrets (which may fail) before it       *)
(* listens. Kubelet goes on to believe what it was told; a Secret that was *)
(* not written, or not read, is a mount that will be missing.              *)
Crash ==
  /\ crashes < MaxCrashes
  /\ crashes' = crashes + 1
  /\ pc' = [h \in Calls |-> "idle"]
  /\ op' = [h \in Calls |-> "publish"]
  /\ tgt' = [h \in Calls |-> NoTarget]
  /\ tries' = [h \in Calls |-> 0]
  /\ mnt' = [h \in Calls |-> "none"]
  /\ waiting' = {}
  /\ locks' = {}
  /\ loaded' = {}
  /\ mctx' = {}
  /\ kernel' = [t \in Targets |-> IF kernel[t] \in Served THEN "corrupt" ELSE kernel[t]]
  /\ linger' = [t \in Targets |-> "none"]
  /\ acked' = [t \in Targets |-> IF \E h \in waiting : tgt[h] = t /\ op[h] = "publish"
                                  THEN "unknown" ELSE acked[t]]
  /\ serving' = FALSE
  /\ boot' \in {store, {}}
  /\ logged' = [t \in Targets |-> IF boot' = {} \/ logged[t] = "save" THEN "mount" ELSE logged[t]]
  /\ UNCHANGED store

(* Variant: the remounted target gets no mountContext entry.               *)
RemountWithoutEntry(t) ==
  /\ t \in boot
  /\ boot' = boot \ {t}
  /\ kernel' = [kernel EXCEPT ![t] = "live"]
  /\ loaded' = loaded \cup {VolumeOf[t]}
  /\ logged' = [logged EXCEPT ![t] = "none"]
  /\ UNCHANGED <<handlerVars, mnt, waiting, locks, mctx, store, linger, acked, serving, crashes>>

(* RemountState: the states one after the other, nothing else runs.        *)
RemountSucceeds(t) ==
  /\ t \in boot
  /\ boot' = boot \ {t}
  /\ kernel' = [kernel EXCEPT ![t] = "live"]
  /\ loaded' = loaded \cup {VolumeOf[t]}
  /\ mctx' = mctx \cup {t}
  /\ logged' = [logged EXCEPT ![t] = "none"]
  /\ UNCHANGED <<handlerVars, mnt, waiting, locks, store, linger, acked, serving, crashes>>

(* It fails before the mount (path not cleaned up, config half loaded), or *)
(* at the mount, after which the sections are dropped.                     *)
RemountFails(t) ==
  /\ t \in boot
  /\ boot' = boot \ {t}
  /\ \/ /\ \/ UNCHANGED kernel
           \/ kernel[t] = "corrupt" /\ kernel' = [kernel EXCEPT ![t] = "absent"]
        /\ UNCHANGED loaded
     \/ /\ kernel' = [kernel EXCEPT ![t] = "dir"]
        /\ loaded' \in {loaded, loaded \cup {VolumeOf[t]}, loaded \ {VolumeOf[t]}}
     \/ /\ "daemon" \in Strays
        /\ kernel' = [kernel EXCEPT ![t] = "dead"]
        /\ loaded' = loaded \ {VolumeOf[t]}
  /\ logged' = [logged EXCEPT ![t] = "mount"]
  /\ UNCHANGED <<handlerVars, mnt, waiting, locks, mctx, store, linger, acked, serving, crashes>>

StartServing ==
  /\ ~serving
  /\ boot = {}
  /\ serving' = TRUE
  /\ UNCHANGED <<handlerVars, mnt, waiting, driverVars, store, kernel, linger, acked, logged, boot, crashes>>

-----------------------------------------------------------------------------
LockStep(h) == Acquire(h) \/ Retry(h) \/ RefuseBusy(h)
PublishStep(h) ==
  \/ AlreadyPublished(h) \/ PrepareTarget(h) \/ PrepareFails(h)
  \/ LoadConfig(h) \/ LoadConfigFails(h)
  \/ CollectMount(h) \/ CollectFailure(h) \/ HandOff(h) \/ SaveState(h)
ReapStep(h) == Reap(h) \/ DetachOrphan(h) \/ DropRemotes(h)
UnpublishStep(h) == GracefulUnmount(h) \/ SkipGraceful(h) \/ ForceCleanup(h) \/ Forget(h)
CallStep(h) == LockStep(h) \/ PublishStep(h) \/ ReapStep(h) \/ UnpublishStep(h) \/ Release(h)
MountStep(h) == NewFs(h) \/ Mount(h) \/ MountFails(h)
BootStep == StartServing \/ \E t \in Targets : RemountSucceeds(t) \/ RemountFails(t)

Next ==
  \/ \E h \in Calls, t \in Targets, o \in {"publish", "unpublish"} : Begin(h, t, o)
  \/ \E h \in Calls : Abandon(h) \/ CallStep(h) \/ MountStep(h)
  \/ \E t \in Targets : LingerEnds(t)
  \/ Crash
  \/ BootStep

Spec == Init /\ [][Next]_vars

(* The handler and the reaper run, timers expire, and the boot loop goes   *)
(* on. Nothing is assumed of fs.NewFs and Mount, which "can block          *)
(* indefinitely", nor of kubelet.                                          *)
LiveSpec ==
  /\ Spec
  /\ \A h \in Calls : WF_vars(CallStep(h))
  /\ WF_vars(BootStep)

-----------------------------------------------------------------------------
(* The key of a target is held exactly while one call works on it: the     *)
(* handler, or the reaper it handed the key to, never both of two calls    *)
(* (acquireVolumeLock, the deferred Release, reapOrphanMount).             *)
LockExclusive ==
  /\ locks = {tgt[h] : h \in Holders}
  /\ \A g, h \in Holders : tgt[g] = tgt[h] => g = h

(* A mount attempt runs only while its call owns the target, and until it  *)
(* has mounted, the target is an empty directory: a timed-out attempt and  *)
(* the retry never mount over each other, nor over a stale mount that      *)
(* prepareTargetDirectory should have removed.                             *)
MountOntoDirectory ==
  \A h \in Calls : mnt[h] \in {"newfs", "mounting"} =>
                     /\ pc[h] \in {"wait", "reap"}
                     /\ kernel[tgt[h]] = "dir"

(* Once kubelet was told that a target is unpublished, and while no call   *)
(* works on it, nothing of it is left, also after crashes: no mount, no    *)
(* mountContext entry, and no Secret from which a restart would mount it   *)
(* again.                                                                  *)
UnpublishedIsClean ==
  \A t \in Targets : acked[t] = "none" /\ Quiet(t) =>
    /\ kernel[t] \in {"absent", "dir"}
    /\ t \notin mctx
    /\ t \notin store

(* A mount whose context has not been cancelled can always be found: it is *)
(* in mountContext, where unpublish and shutdown look, or it is the result *)
(* the handler is about to collect.                                        *)
NoUnownedMount ==
  \A t \in Targets : kernel[t] = "live" =>
    \/ t \in mctx
    \/ \E h \in Calls : tgt[h] = t /\ pc[h] = "wait" /\ mnt[h] = "ok"

(* A target kubelet believes published is served: once the driver has      *)
(* started, also after any number of restarts, it has a mount with a live  *)
(* context and a mountContext entry, and a Secret for the next restart.    *)
(* Whatever breaks that has been logged: SaveState failed, the Secrets     *)
(* could not be read at boot, the boot remount failed, or a mount was left *)
(* behind that the driver could not take down (nodePublishVolumeDirect,    *)
(* RemountState). The exception is a graceful unmount of an earlier mount  *)
(* that came through after its timeout.                                    *)
PublishedIsServed ==
  \A t \in Targets : acked[t] = "published" /\ Quiet(t) /\ t \notin boot =>
    /\ logged[t] # "mount" /\ linger[t] # "struck" => kernel[t] = "live" /\ t \in mctx
    /\ logged[t] = "none" => t \in store

(* The config sections a mount attempt needs are in LoadedData until       *)
(* fs.NewFs has read them: "so concurrent mounts with the same logical     *)
(* remote do not collide in LoadedData" (prepareIsolatedConfig).           *)
SectionsPresent == \A h \in Calls : mnt[h] = "newfs" => Vol(h) \in loaded

(* Every caller is answered, even if its mount hangs forever.              *)
CallAnswered == \A h \in Calls : h \in waiting ~> h \notin waiting

(* If no mount attempt hangs forever, no key is held forever.              *)
LockReleased ==
  (\A h \in Calls : []<>(mnt[h] \notin {"newfs", "mounting"}))
    => \A t \in Targets : t \in locks ~> t \notin locks

-----------------------------------------------------------------------------
(* The handlers implement the contract with kubelet.                       *)
Contract == INSTANCE VolumeContract WITH
  busy    <- locks,
  present <- {t \in Targets : kernel[t] \notin {"absent", "dir"}},
  durable <- store,
  undone  <- {t \in Targets : linger[t] = "struck"},
  up      <- serving

ContractKept == Contract!Spec
=============================================================================

# Verification of the rclone CSI driver

TLA+ models, TLC runs and TLAPS proofs kept beside the code of
`fork-csi-driver-rclone`. All paths below are relative to `src/`.

## 1. The system

A node plugin serves the CSI node service: for each pod that uses an rclone
volume, kubelet asks it to mount the remote at a path. An optional second
process per node, the volume recovery operator, restarts workload pods whose
mounts died with the plugin.

| Component | State | Operations | Interacts with |
|---|---|---|---|
| Direct node service (`pkg/rclone/nodeserver.go`) | `mountContext` (target path -> mount, cancel function, sections), `volumeLocks`, rclone's process-wide `LoadedData` | `NodePublishVolume`, `NodeUnpublishVolume`, the background mount goroutine, `reapOrphanMount` | kubelet (calls, retries, cancellations), the kernel's mount table, rclone, the mount-state store |
| Staged node service (`nodeserver_stage.go`, `staging.go`) | `stagedVolumes` cache, `mountContext` per staging path, two families of lock keys | `NodeStageVolume`, `NodeUnstageVolume`, bind publish and unpublish, rebuild or restage | the same |
| Mount-state store (`mount_state.go`) | one Secret per saved mount | `SaveState`, `DeleteState`, `LoadState` | API server; read at boot |
| Driver life cycle (`rclone.go`, `cmd/rcloneplugin/main.go`) | server running or not | `Run` (remount everything, then serve), `Shutdown` (`UnmountAll`) | node service |
| Config isolation (`utils.go:282-349`) | none (rewrites section names) | `remotePrefixForVolume`, `isolateConfigRemotes` | `LoadedData` |
| Mount probe (`mount_health.go`) | one probe slot | `IsMountPathHealthy`, `probeMountPathWithTimeout` | a possibly hanging file system |
| Recovery operator (`pkg/operator`) | rate-limit map, CSI restart tracker, annotations on workloads | `ReconcileStaleMounts`, `ReconcileWorkloadPodsAfterCSIRestart`, `maybeLazyUmountOrphan` | API server, mount table, `/proc`, the node plugin's pod |
| Controller and identity services | none | validation, a directory on the remote | kubelet, provisioner |
| Metrics, rc server, logging, version, manifests | none of the driver's own | read only | - |

What is hard here: a mount may block forever, so a publish answers before its
mount attempt has ended and leaves a goroutine that must neither be forgotten
nor be mistaken for a finished mount; kubelet retries; the process may die
between any two steps, leaving dead FUSE mounts and Secrets; unmounts may fail
or come through after everybody stopped waiting; rclone's config is one global
map; the operator and the driver act on the same paths without talking to each
other. `PROJECT.json` lists the hazards at their lines, with the property that
covers each or the reason why none does.

What makes each component correct:

- *direct node service*: one call at a time on a target, also across the
  hand-off to the reaper; never a mount over a mount; "published" means
  somebody serves the mount, "unpublished" means nothing is left, also after
  crashes; every call is answered; keys come back.
- *staged node service*: a publish binds a live staging mount and never the
  bare directory; an unstage leaves nothing that a restart would mount again.
- *store and boot*: a Secret exists for what is to be remounted and for
  nothing kubelet was told is gone.
- *graceful shutdown*: nothing is taken from anybody before the server has
  stopped, and then nothing is left mounted, although no lock is taken.
- *config isolation*: the sections a mount reads are its own, whole, present
  and as the user meant them; none is left behind; a remount names them alike.
- *operator*: a stale pod is eventually restarted, a loop restarts a workload
  twice within a cooldown only if the record of the first was lost, no restart
  of the plugin is forgotten before it was handled, and no path of a live pod
  is detached.
- *probe*: a read that hangs delays a scan and never stops it.

## 2. Modules

| Module | What it is |
|---|---|
| `DirectNode` | the node service in direct mode with the store, the boot remount, the kernel's view of each target and kubelet |
| `VolumeContract` | the abstract specification: what the node service promises kubelet |
| `MCDirectNode` | instances for TLC and their symmetries |
| `DirectNode_proofs` | type correctness and exclusion, proved |
| `DirectNodeSafety_proofs` | the other safety invariants, and that published targets are served, proved |
| `DirectNodeContract_proofs` | that `DirectNode` implements `VolumeContract`, proved |
| `StagedNode` | the node service in staging mode, with the store, the boot remount, the kernel and kubelet |
| `StageContract` | the abstract specification of staging mode |
| `MCStagedNode` | its instances |
| `StagedNode_proofs` | its types, keys, paths and the order of publish and unstage, proved |
| `StagedNodeClean_proofs` | that what kubelet was told of targets and volumes is so, and that `StagedNode` implements `StageContract`, proved |
| `DriverShutdown` | the graceful shutdown composed with `DirectNode` |
| `MCDriverShutdown` | its instance |
| `DriverShutdown_proofs` | that the composition keeps the invariants of `DirectNode` it should, serves until it sweeps, and sweeps everything, proved |
| `ConfigIsolation` | section names and references, and `LoadedData` with several volumes, half-failed loads and restarts |
| `MCConfigIsolation` | its instances: configs after those of `utils_test.go` |
| `ConfigIsolation_proofs` | that mounts are isolated, read their own config, and leave nothing behind, proved |
| `RecoveryOperator` | the operator's two loops, with the node they act on |
| `MCRecoveryOperator` | its instances |
| `RecoveryOperator_proofs` | rate limit, acknowledged restarts and live paths, proved |

### DirectNode and the code

One *call* `h` is a gRPC request with the goroutines it starts. `pc[h]` is
where its handler is, or, once it has handed off, its reaper: the two never run
together, so they share the variable. `mnt[h]` is the goroutine of
`createAndMountFilesystem` (`nodeserver.go:1064-1078`), which does run beside
both.

| Model | Code |
|---|---|
| `locks`, `Acquire`, `Retry`, `RefuseBusy`, `Release` | `VolumeLocks`, `acquireVolumeLock` (404-414), the deferred `Release` (970-974). The key is volume and target; a target belongs to one volume, so the target alone identifies it |
| `kernel[t]` | what is at the path: nothing, an empty directory, a mount with a live context, one whose context was cancelled (`dead`), one whose FUSE server is gone (`corrupt`) |
| `AlreadyPublished`, `PrepareTarget`, `PrepareFails` | `prepareTargetDirectory` (330-384) and its caller (1004-1027): the idempotent answer needs a readable mount *and* a `mountContext` entry; anything else mounted is cleaned up. `ReadDir` reaches the remote, so any mount may be found unreadable |
| `LoadConfig`, `LoadConfigFails`, `DropRemotes` | `loadRcloneConfig`, `cleanupConfigRemotes`. The sections are named after the volume (`remotePrefixForVolume`): `loaded` is a set of volumes |
| `NewFs`, `Mount`, `MountFails` | `createAndMountFilesystem` and `handleRcloneDaemon`. `NewFs` reads the sections. `Mount` does not look at the context, so it may come up after the attempt was cancelled |
| `CollectMount`, `CollectFailure`, `HandOff` | the three cases of the select (1082-1140); timer and `ctx.Done()` do the same. A hand-off is possible even when the result is ready |
| `Reap`, `DetachOrphan` | `reapOrphanMount`, `forceUnmountBounded` |
| `SaveState`, `Forget` | `SaveState` (its error is only logged) and `deleteMountContext` with `DeleteState` (its error fails the call). A request that failed may have been served |
| `GracefulUnmount`, `SkipGraceful`, `ForceCleanup`, `LingerEnds` | `unmountVolume` (881-932): the graceful unmount may succeed, fail, or outlast its timeout, in which case its goroutine goes on (`linger`) and takes down whatever is at the path when it ends (`struck`) |
| `Crash`, `RemountSucceeds`, `RemountFails`, `StartServing` | the process dies, and kubelet goes on to believe what it was told; `RemountAllStates` (1594-1622), which may fail to read the Secrets, before the server listens (`rclone.go:151-155`) |
| `logged[t]` | history: whether an error was logged that leaves a published target without its Secret (`SaveState` failed: "save") or without its mount (a forced unmount or a boot remount that failed, Secrets that could not be read: "mount") |
| `Begin`, `Abandon`, `acked` | kubelet. It has one call at a time on a target, does not publish at a path it has begun to tear down until an unpublish succeeded, and may give up on a call at any time but while the call waits for the lock (under a second) |

Not modelled in `DirectNode`: what the configuration, options and messages say;
validation of requests (it changes nothing); the wait for the VFS cache. The
graceful shutdown is in `DriverShutdown`, the sections' contents are in
`ConfigIsolation`.

### VolumeContract

Six variables: what kubelet was last told, which targets are worked on, which
have something mounted, which a restart will mount, which a late unmount has
emptied, and whether calls are served. `ContractKept` says that `DirectNode`
implements it under the mapping at the end of `DirectNode`: a path changes only
while a call owns it, after a restart and then only if it is durable, or by a
late unmount; "published" is told only with a mount there (or one a late
unmount has just taken), "unpublished" only with neither a mount nor a Secret.

### StagedNode and the code

In staging mode a volume has one FUSE mount per node, at its staging path, and
each pod a bind of it. `pc[h]` is where the handler of call `h` is; a staged
call starts no goroutine but the graceful unmount. `stageKeys` and `pubKeys`
are the two families of `VolumeLocks` keys (`stage-<volume>`,
`publish-<volume>-<target>`). Attempts for a key are not counted: a call takes
it when it is free and may be refused when it is not, which covers any number.

| Model | Code |
|---|---|
| `TakeTarget`, `TakeStage`, `RefuseBusy`, `ReleaseStage`, `Finish` | `acquireVolumeLock`, the deferred releases, and the stage key of a publish, released by hand (`nodeserver.go:1211-1225`) |
| `stage[v]`, `bind[t]` | what is at the staging path (nothing, a bare directory, a live, cancelled or corrupt mount) and at the target (nothing, a directory, a bind of the bare directory, of a live mount, of one that has gone, of a corrupt one) |
| `LooksHealthy`, `LooksUnhealthy` | `stageMountHealthy`, `isMountHealthy` (`nodeserver.go:1300-1305`): the path can be read, and the entry in `mountContext`, if there is one, counts no VFS errors. A bare directory without an entry passes. A mount, or a bare directory whose entry stayed, may pass or not. Two looks at the same path may differ |
| `AlreadyStaged` ... `SaveState` | `stageVolume` (`nodeserver_stage.go:107-244`), step by step; also run by a publish that restages. The mount is up (`MountStaging`) before it is in `mountContext` and the cache (`Register`) |
| `CleanStaging`, `TearDown` | `cleanupUnhealthyStagingMount` (91-105), which may fail to make the directory again (101-103), and `unmountVolume`; an unstage has its context from the entry or from the cache (266-274) |
| `LookAtStaging`, `ReadCache`, `DropCache`, `RebuildCache`, `Restage` | `nodePublishVolumeStaged` (1191-1225): the look at the path, the read of the cache or the removal from it, each a step of its own and without the stage key; `rebuildOrRestage` with it. `Restage` leaves the cache as it is and goes on to `stageVolume`, as the code does |
| `AlreadyPublished`, `PrepareTarget`, `BindPublish`, `Unbind` | `prepareTargetDirectory` of the target, `bindPublish`, `unbindPublish` |
| `Unstage`, `Forget` | `NodeUnstageVolume` (249-291); the error of `DeleteState` is only logged |
| `Crash`, `RemountSucceeds`, `RemountFails`, `StartServing` | as in `DirectNode`; binds of the old mounts stay, dead. The failures of `RemountState` are told apart by what they leave: nothing touched, no directory, a directory with the sections loaded or not, a mount |
| `BeginDevice`, `BeginPod`, `Abandon`, `dev`, `acked` | kubelet, below |

*Kubelet in this model.* A stage or unstage excludes every other call on the
volume that kubelet still waits for; a publish happens while the volume is
staged and not at a target it has begun to tear down; an unstage begins when
each target of the volume has been unpublished, or was never published. It may
give up on any call but one that still waits for its first key. What it has
given up on goes on in the driver: that is what `NoUnstageUnderPublish` is
about. A restarted driver finds kubelet's idea of the staged volumes unchanged.

Not modelled in `StagedNode`: a volume with two staging paths
(`FailedPrecondition`), the read-only flag, `refreshPublishBinds` (only tests
call it), the search for the staging path in the Secrets when kubelet does not
send one. `RemountState` also has a branch for a staging path that is mounted
and healthy (`nodeserver.go:1482-1486`), which rebuilds the cache entry from
it. It runs only at boot, before the server listens, and by then every mount of
the process that died is corrupt: no state of the model takes that branch.
Config sections are named after the volume here too, but there is one mount per
volume, and all that touch them hold the stage key: `NoUnownedStage` says that
a live mount keeps its own.

### StageContract

The promise of staging mode, in terms of what kubelet was told of each volume
and target, which of them a call works on, what is at each staging path
(nothing, a directory, a mount, a broken mount), which targets have something
bound, and which volumes a restart will mount. `ContractKept` of `StagedNode`
says that a path, a Secret or a bind changes only while a call holds the key
for it, or in a restart, or by a late unmount; that a Secret is written only
for a path that can be read and removed only once the mount is gone; that a
bind is made only while kubelet takes the volume for staged or does not know;
that it begins an unstage only when nothing is bound any more; and that each
answer is true when it is given. What it does not promise is also deliberate:
"staged" may mean a bare directory (`staged_bare`), and an unstaged volume may
keep its Secret: the error of `DeleteState` is only logged
(`nodeserver_stage.go:280`).

### DriverShutdown and the code

`DriverShutdown` extends `DirectNode` with four variables: `open` (nobody has
stopped the server), `sweeping` and `sweep[t]` (`UnmountAll` and its goroutine
for each target), and `cut`, a history variable: the targets a handler, a
reaper, the boot remount or a new call has been at work on since `UnmountAll`
began.

| Model | Code |
|---|---|
| `Terminate` | `cmd/rcloneplugin/main.go:128-152`: a signal starts `Shutdown`. The server may not be there yet: the signal may come while `RemountAllStates` runs |
| `StopServer` | `Driver.Shutdown` (`rclone.go:171-206`): `GracefulStop`, and `ForceStop` after 30 s, which cuts off the callers but not the handlers. A call waits for a lock for a second at most, so none does by then |
| `StartSweep` | `UnmountAll` (`nodeserver.go:1420-1444`) clones `mountContext` and starts one goroutine per entry, without the volume locks |
| `SweepUnmount`, `SweepCleanup`, `SweepForget` | `unmountVolume` and `deleteMountContext`; the entry of the clone may be out of date by then, so a newer mount at the path may keep its context. The Secret stays |
| `Exit` | the process ends when `UnmountAll` does, or after 90 s: for the rest of the world a `Crash` |

A mount attempt cannot succeed on a directory that the sweep has removed
(`MountAttempt`). Staging mode is not composed with the shutdown: `UnmountAll`
treats staging mounts as it does direct ones, and the binds of pods are not in
`mountContext`. The metrics and rc servers that `main` stops too hold nothing
of the driver's.

### ConfigIsolation and the code

rclone's `LoadedData` is one map for the whole process: section -> key -> value
(`loaded`). A name is a sequence of words ("minio-sample" has two), and so is
the text of a reference; that is as much text as the rewriting can tell apart.
A reference value is written out (`Text`) and searched for names from every
word on, as `strings.ReplaceAll` does. `Sanitised` gives what becomes of a word
with characters that rclone does not allow: `fspath.MakeConfigName` is lossy,
and two names of a config may become one.

| Model | Code |
|---|---|
| `MakeConfigName`, `remotePrefixForVolume`, `RenameMap`, `rewriteRemoteReferences` | the functions of the same names and the renaming in `isolateConfigRemotes` (`utils.go:282-349`); the hash is the volume itself |
| `Origins`, `isolateConfigRemotes` | the new config: one section per new name. When two names have become one, the order of a Go map decides whose values it has, so it is a set of configs |
| `Publish` | `generateConfigData`, `prepareIsolatedConfig` (415-450), with the config that the user's Secret has by then; refused when it lacks the volume's remote |
| `LoadConfig`, `SetValues` | `loadRcloneConfig` (466-515): `SetValue` adds keys to a section that is already there |
| `LoadConfigFails` | `UpdateRemote` fails (503) after any of the sections, and part of one, were set; nothing is registered that would remove them (`leaked`, history) |
| `MountSucceeds`, `MountFails`, `Unmount`, `Cleanup` | the outcomes of the mount, `mountParamsForState` (452-464) with a `SaveState` that may fail, `cleanupConfigRemotes`, `unmountVolume` |
| `Crash`, `Remount` | `LoadedData` is gone; `RemountState` (1514-1554) isolates the saved config again, with the saved prefix, one state after the other |

`PrefixesApart` is the assumption that two volumes do not share a prefix.
`docs/driver-parameters.md:14` lets users do so when they "intentionally share
one config namespace across volumes"; then the sections of one volume go with
the mount of the other, as `direct_shared` shows for two mounts of one volume.
Two mounts of *one* volume are `DirectNode`'s subject, and left out here. Each
volume's steps are those that `DirectNode` and `StagedNode` have under that
volume's key; which keys exist is not repeated.

### RecoveryOperator and the code

The operator is one process per node with two loops, each a sequence of steps
here (`pc[l]`, the pods ahead `todo[l]`, the one it restarts `cur[l]`). Pods
are pod UIDs. The node plugin's runs are numbered: `path[p]` is the run that
serves the publish path of `p` on the host, `born[p]` the one its containers
are bound to, `uid` the first run of the plugin's current pod.

| Model | Code |
|---|---|
| `Seed`, `Detect`, `AcknowledgeRestart`; `last`, `pending` | `CSINodeTracker` (`csi_watch.go:60-130`): the first UID it sees is taken for handled; the UID that was detected is acknowledged, not the newest |
| `WaitUntilReady` | the wait for a Ready plugin pod, which also ends without one |
| `BeginScan`, `Probe`, `ScanDone`; `stale`, `slow` | `ScanStaleMounts`: the paths found at the start, probed one after the other |
| `slot`, `SlotAfter`, `ProbeEnds` | the one probe slot of `mount_health.go`; one timer bounds the wait for it and the probe, and a probe that timed out keeps it until its read returns |
| `ListPods`, `ListFails` | the pods of the node, listed after the scan (the scan loop) or after the detection (the csi loop) |
| `CsiPassesOver`, `ScanPassesOver`, `MayBeLeft`; `Skipped` | what either loop leaves: pods that `ShouldSkipPod` (410-431) names, a pod without a volume of the driver (or whose PVC or PV could not be read), the rate limit in memory and on the owner; the scan also leaves a path whose probe timed out or that is healthy again |
| `CsiTakesUp`, `ScanTakesUp`, `Confirm` | the loop goes on to the restart, the scan after a second probe |
| `DeletePod`, `DeleteFails`, `AnnotateOwner`; `recent`, `noted` | `restartPod` (352-375), the mark in `lastRecovery` and the annotation of the owner. A delete that fails may have been served |
| `CrashOperator` | the operator dies, and a delete it has just sent may still be served; only annotations remain |
| `UmountOrphan` | `maybeLazyUmountOrphan`: a path whose pod is not in the list is detached and its FUSE connection aborted |
| `RestartPlugin`, `Remount`, `StartPod`, `PodEnds`, `KubeletCleans`, `Hang` | the node: the plugin in a new pod or the same one, the boot remount, kubelet, controllers, remotes that hang |

`hit`, `lapsed`, `left` and `seed` are history. `hit[l]` are the pods that loop
`l` has deleted within the hour, whether or not it got the reply, and also
across crashes; `lapsed` those of them of which no record is left or could be
read: the reply was lost, the operator died before the annotation, or the
annotation's GET failed. Time is left out: a cooldown may be over at any moment.
Left out too are the annotation of replacement pods (it is written and never
read), the parsing of `vol_data.json`, mountinfo and `/proc`, and staging mounts
in the abort.

## 3. Runs

| Run | Instance | Result |
|---|---|---|
| `direct` | 1 target; 2 calls; 3 attempts for the lock; 3 crashes; both kinds of stray mount | passes, 77 thousand states: `TypeOK`, `LockExclusive`, `MountOntoDirectory`, `UnpublishedIsClean`, `NoUnownedMount`, `SectionsPresent`, `PublishedIsServed`, `ContractKept` |
| `shutdown` | 1 target; 2 calls; 1 attempt; 2 exits or crashes; both kinds of stray mount; fairness | passes, 143 thousand states: `ShutdownTypeOK`, `SweepComplete`, `UnpublishedIsClean`, `ServedUntilSwept`, `CallAnswered`, `LockReleased` |
| `direct_shared` | 2 targets of *one* volume | `SectionsPresent` violated |
| `staged` | 1 target; 3 calls; 2 crashes; both kinds of stray mount | passes, 437 thousand states: `TypeOK`, `KeysExclusive`, `StageOntoDirectory`, `NoUnstageUnderPublish`, `NoUnownedStage`, `UnstagedIsClean`, `PublishedIsBound`, `ContractKept` |
| `staged_bare` | 1 target, 1 call, 1 crash | `PublishedIsBacked` violated |
| `isolation` | 2 volumes, one with a prefix of its own; 5 configs; 1 half-failed load; 1 crash | passes, 374 thousand states: `TypeOK`, `SectionsIntact`, `ReadsOwnConfig`, `SectionsAccounted`, `RemountKeepsNames` |
| `isolation_suffix` | 2 volumes; a config with a remote whose name ends like another's | `ReadsOwnConfig` violated |
| `operator` | 1 pod; 3 runs of the plugin, in a new pod or the same one; every request may fail, reads hang; 1 crash | passes, 203 thousand states: `TypeOK`, `MissedIsKnown`, `LivePathKept` |
| `operator_limit` | 2 pods; 2 runs, in new pods; deletes whose reply is lost, annotations that fail or cannot be read; 1 crash | passes, 696 thousand states: `OncePerLoop` |
| `operator_live` | 2 pods; 2 runs, in one pod; reads that hang, annotations that fail or cannot be read; 1 crash; fairness | passes, 116 thousand states: `ScanReturns`, `CorruptedRecovered` |
| `operator_container` | 1 pod; 2 runs, in one pod; fairness | `StaleBindRecovered` violated |
| `operator_rate` | 2 pods; 2 runs, in new pods; no fault | `OneDeletePerHour` violated |

**Bounds.** The runs are small enough to finish in well under a minute, since
the theorems below say the same of every number of targets, volumes, pods and
calls. What the bounds have to provide is that each kind of step, and each
interleaving of the few that meet, occurs.

Calls on different targets share only the config sections (`direct_shared` and
`SectionsSafe` are about them) and the boot loop, so `direct` has one target.
On it at most one call waits for kubelet's answer and at most one, a reaper or
an abandoned handler, is inside the lock: a third call would never be under
way. `LockTries` is 5 in the code (`nodeserver.go:61`); three attempts are
enough for the first one, a retry and the refusal after the last. A crash in a
boot loop that follows a crash needs two; one more lets it happen to a mount
that survived both. One lingering unmount per target.

`staged` has one volume, for the same reason, and one target. On a volume a
third call can be under way: kubelet waits for one, an abandoned publish holds
the target's key and an abandoned stage the volume's. Pods that share the
volume, and so publishes that find its staging mount unhealthy together, are
covered by the theorems alone.

`shutdown` has one target, since the goroutines of `UnmountAll` share nothing
but the sections; two calls put one in the lock and one in front of it when the
signal comes, and two ends of the process let the second signal come during the
boot remount that follows the first. One attempt for the lock is enough there:
what a retry does is `direct`'s subject.

For `isolation`, two volumes show everything that sections of the same name can
do to each other, and the configs are those that tell the rewriting apart: a
name that begins like another's, several references in one value, a reference
to somebody else's remote, credentials that change between two mounts (with a
key more and a key less), a name and a prefix with a character that is not
allowed, and two names that become one. A half-failed load leaves sections of
one volume beside a mount of the other, or of its own. One crash reaches a
remount beside a state that was not saved, or was not deleted.

For `operator`, three runs let the plugin restart again while the first restart
is being handled, and one pod is enough for what a single pod may be missed by.
Two pods of one workload are what the rate limit is about: they are in
`operator_limit`, with both loops restarting pods, and in `operator_live`, where
a plugin restarted in place is left to the scan loop. Both have two runs, as the
plugin's own restart is not their subject. `Skipped` is empty in the runs: a pod
that is skipped differs from one that a failed look-up makes seem another
driver's only in that it is left every time; the theorems are for any `Skipped`.

**Symmetry.** `direct` and `staged` are symmetric in the calls and
`operator_limit` in the pods; the other passing runs use no symmetry (`shutdown`
and `operator_live` check liveness).

**Fairness.** `LiveSpec` assumes weak fairness of each handler and reaper step
(goroutines run, the timer of `mountTimeout` expires, the forced unmount is
bounded by its own timeout) and of the boot loop. It assumes nothing of
`fs.NewFs` and `Mount` - the code says they "can block indefinitely" - nor of
kubelet, which may never call again. `LockReleased` therefore has the premise
that no attempt hangs forever. It assumes that reading a directory (`ReadDir` in
`prepareTargetDirectory`) returns. `ShutdownLiveSpec`
is that of `DirectNode`, and assumes nothing of the signal, of `UnmountAll` or
of the exit: a process that hangs in its shutdown is killed by kubelet, which
`Exit` covers. The operator's `LiveSpec` assumes that both loops go on, that
reads which are not blocked return, and that an hour passes; nothing of the
plugin, of kubelet, of controllers or of blocked reads. `CorruptedRecovered`
has the premise that from some time on no probe is left hanging.

**The violations.**

- `direct_shared`: `prepareIsolatedConfig` is there "so concurrent mounts with
  the same logical remote do not collide in LoadedData" (437-438), but two
  pods of one volume on a node get the same section names, and the cleanup of
  one deletes them while the other is about to read them.
- `staged_bare`: `stageMountHealthy` takes a readable directory with nothing
  mounted for a healthy staging mount, so after a boot remount that failed the
  publish does not restage but binds the bare directory. The same happens after
  a restage that failed, when `rebuildOrRestage` cleans up beside a cache entry
  that another publish has just made, and, with two pods of a volume and neither
  a crash nor a failed unmount, between the look at the staging mount
  (`nodeserver.go:1211`) and the bind (1236), which is made without the stage
  key: a publish of the other pod finds the mount unhealthy, takes it down and
  recreates the directory in between.
- `isolation_suffix`: references are rewritten one name after the other, the
  longest first (`utils.go:294-313`), in a text that already has rewritten ones:
  with remotes `minio-sample` and `sample`, "minio-sample:" becomes
  "p-minio-sample:" and then "p-minio-p-sample:", a remote that does not exist.
  A name that ends like the sanitised form of another one's is rewritten twice
  for the same reason.
- `operator_rate`: "one recovery delete per workload (~controller owner) per
  hour" (`docs/mount-recovery.md:117`, also
  `deploy/volume-recovery-operator/README.md:52`). The limit is looked up in
  one critical section (`isRateLimited`, `reconciler.go:444-454`) and marked in
  another, after the delete (366-368), though the comment at line 62 says that
  `mu` "serializes pod deletes + lastRecovery": the csi loop and the scan loop
  both find a workload free and delete a pod of it each, without any fault.
- `operator_container`: the tracker compares pod UIDs. A plugin container that
  is restarted in its pod (OOM, liveness probe) is not detected, and once the
  boot remount has made the publish paths healthy again the scan finds nothing
  either: pods keep their dead binds, for which the operator "is required"
  (`docs/mount-recovery.md:92, 112`).

**What the passing runs say beside their names.**

- `OncePerLoop` is the bound that holds for one loop: it restarts a second pod
  of a workload within the hour only when the record of the first delete is
  lost. Each way to lose it occurs: the reply of a delete that was served (352),
  the operator's death between the delete and the owner's annotation, an
  annotation that failed before a death, one that cannot be read after it.
- `MissedIsKnown` has three exceptions, and each occurs: a csi pass
  acknowledges the restart although a delete failed, a PVC could not be read,
  or the workload was rate-limited by the delete of its first replica (a pod
  that is skipped is left by intention); the other replicas are then left to
  the scan, which does not see them once their paths are remounted. And an
  operator that starts late takes the plugin it finds for handled.
- A path whose probe timed out is never taken up (`ScanPassesOver`), though
  `deploy/volume-recovery-operator/README.md:32` says "timeout treated as
  corrupted"; the second probe, just before a restart, does count a timeout.
- `PublishedIsServed` and `ServedUntilSwept` keep what kubelet believes across
  every crash, exit and restart. A published target may lack its mount only
  after an error that the driver has just logged, or after a late graceful
  unmount; it may lack its Secret only after a `SaveState` that
  was logged. One of the logged errors is the forced unmount of a reaper
  (`nodeserver.go:1182`): a target is published; a second publish finds its
  mount unreadable and replaces it, which leaves the first one's entry in
  `mountContext`, and times out; the reaper cancels the new mount and fails to
  detach it; the retry finds a readable mount and the old entry and answers
  "already published". The comment at `nodeserver.go:1146-1148` says that a
  retry can "never" observe such a mount. Without the exception TLC finds this
  trace in an instance without crashes.
- `UnstagedIsClean` is about volumes without a Secret: an unstage whose
  `DeleteState` fails succeeds (`nodeserver_stage.go:280`), its Secret is never
  deleted, and the next restart mounts the volume, although
  `docs/integration-test-plan.md:60` asks for "One Secret per active volume on
  that node".
- `LockReleased` has a premise that the comment at `nodeserver.go:1126-1127`
  ("the lock is always eventually released") does not name: the attempt ends.
- A staged call, also a publish that restages, waits for its mount without
  `MountTimeout` or a reaper: while the mount hangs it is not answered.
- `ReadsOwnConfig` allows keys left by an earlier half-failed load of the same
  volume: `SetValue` does not empty the section first, so a corrected config is
  mounted with what the wrong one had and it has not. And it leaves out a
  section whose sanitised name is also that of another section of its config
  (`KeepsApart`): only one of the two is loaded, and which one depends on the
  order of a Go map.

## 4. Proofs

For every set of targets, volumes and calls, every `VolumeOf`, every bound on
attempts and crashes and every choice of `Strays`, `Faults` and `Skipped`,
under the named assumptions on the constants alone (`ConstantsAssumption` and,
in `ConfigIsolation`, `PrefixesApart`, `NoConfigAssumption` and
`BoundsAssumption`). Two theorems have a premise of their own, given in the
table:

| Theorem | Statement |
|---|---|
| `TypeCorrect` | `Spec => []TypeOK` |
| `LockSafe` | `Spec => []LockExclusive` |
| `MountSafe` | `Spec => []MountOntoDirectory` |
| `NoLeakedMount` | `Spec => []NoUnownedMount` |
| `UnpublishLeavesNothing` | `Spec => []UnpublishedIsClean` |
| `SectionsSafe` | `OneTargetPerVolume => (Spec => []SectionsPresent)` |
| `PublishedSafe` | `Spec => []PublishedIsServed` |
| `ContractImplemented` | `Spec => ContractKept` |
| `StagedNode_proofs`: `TypeCorrect` | `Spec => []TypeOK` |
| `KeysSafe` | `Spec => []KeysExclusive` |
| `UnstageAfterPublish` | `Spec => []NoUnstageUnderPublish` |
| `StageSafe` | `Spec => []StageOntoDirectory` |
| `NoLeakedStage` | `Spec => []NoUnownedStage` |
| `UnstageCleans` | `Spec => []UnstagedIsClean` |
| `PublishBinds` | `Spec => []PublishedIsBound` |
| `StageContractImplemented` | `Spec => ContractKept` |
| `ShutdownTypeCorrect` | `ShutdownSpec => []ShutdownTypeOK` |
| `ShutdownLockSafe` | `ShutdownSpec => []LockExclusive` |
| `ShutdownLeavesUnpublishedClean` | `ShutdownSpec => []UnpublishedIsClean` |
| `SweepIsComplete` | `ShutdownSpec => []SweepComplete` |
| `ShutdownServesUntilSweep` | `ShutdownSpec => []ServedUntilSwept` |
| `ConfigIsolation_proofs`: `TypeCorrect` | `Spec => []TypeOK` |
| `MountsIsolated` | `Spec => []SectionsIntact` |
| `NothingLeaks` | `Spec => []SectionsAccounted` |
| `NamesKept` | `Spec => []RemountKeepsNames` |
| `MountsReadTheirConfig` | `RewritesRight => (Spec => []ReadsOwnConfig)` |
| `RecoveryOperator_proofs`: `TypeCorrect` | `Spec => []TypeOK` |
| `RateLimitKept` | `Spec => []OncePerLoop` |
| `AcknowledgedAccounted` | `Spec => []MissedIsKnown` |
| `LivePathSafe` | `Spec => LivePathKept` |

How those of `DirectNode` build on each other:

1. *Control.* `LockExclusive` is not inductive: that a call at work holds its
   key says nothing of two calls with the same target unless keys are owned by
   one of them, and a mount goroutine is only tied to its handler through the
   two program counters. `Control` strengthens it: `TypeOK`; `Owned` (the keys
   are those of the calls that work, one call each); `Phases` (which positions
   of the mount goroutine go with which of the handler or reaper); `BootAlone`
   (nothing runs while the boot loop does); `Callers` (who waits, and for what).
2. *Paths.* Given `Control`, what is mounted where is settled per target: who
   works on a target is unique, so a step of one call leaves every other
   target, and every fact about another call's target, alone. `Paths` says that
   an attempt about to mount has an empty directory under it; `Emptied`, kept
   apart because the shutdown needs it without `Paths`, that a call which is
   about to forget a target has left nothing there. With them a live mount has
   an entry in `mountContext` or a call that will register or cancel it. The
   proof has one step per group of actions, split into the target worked on and
   the others.
3. *Answers.* What kubelet was told follows from what the handler saw: from the
   step that cleans a path to the answer nothing can put a mount back, because
   the key is held until the answer. `UnpublishedIsClean` also needs that a
   restart has no Secret to remount from.
4. *Sections.* With one target per volume the key protects the sections as it
   does the path. Without that premise the statement is false: `direct_shared`.
5. *Refinement.* `Present`, `Undone` and `Mounted` add what the mapping needs
   (an "OK" is only on its way when a mount is there or a late unmount took it).
   Each action then maps to a step of `VolumeContract` or to a stutter.
6. *Service.* That a published target is served needs to know why a mount that
   is not served is never reported: `Kept` says that a dead mount is doomed (a
   call that holds its key is about to take it down, or its failure was
   logged), that an attempt which succeeded or failed has left what it says,
   and that what kubelet believes is so, or is still to be remounted, or a call
   that has touched it since has not answered yet, or an error was logged. A
   crash takes every mount away, so the next driver has nothing but Secrets:
   `Saved` says that what is in `mountContext`, believed published or about to
   be answered has a Secret, or is about to be saved, or its `SaveState` has
   failed. With it the end of the process keeps `Kept` (`CrashKeeps`).

For `StagedNode`, `Control` is `TypeOK`, the two families of keys element by
element, `BootAlone`, and `Kubelet`. The last is what `NoUnstageUnderPublish`
needs: between its look at the staging path and its bind a publish holds only
the key of its target, and an unstage asks only for the key of the volume, so
no key keeps them apart. What does: a publish whose caller has given up leaves
its target in an unknown state; kubelet unstages only after an unpublish of
that target succeeded; and the unpublish needs the target's key, which the
publish holds until its end. Conversely an unstage under way, abandoned or not,
means that kubelet does not take the volume for staged, and so does not
publish; the stage call that could change that needs the key the unstage holds.
`StagePaths` adds what a call has at its staging path, as `Paths` does; a step
of a handler changes its own volume alone, and only under the stage key
(`WorkIsLocal`).

What kubelet was told (`StagedNodeClean_proofs`) needs more of both sides.
`Requests`: which steps each operation takes, and that an unpublish, also an
abandoned one, works on a target kubelet has begun to tear down. `Binds`: a
target is bound or unbound only by the call that holds its key, so what an
answer says still holds when it is given; a target kubelet takes for
unpublished is bound only while a publish it waits for is at work. `Devices`:
while kubelet waits for an unstage, nothing else changes its view of the
volume, and an abandoned stage leaves it unknown. With these, `Leftovers` is
inductive: once the unstage has forgotten a volume nothing but a new stage
call, or a remount from a Secret that was left, touches it: `boot` stays within
`store`, so a restart remounts only what has a Secret.

The refinement of `StageContract` adds one invariant, `Reported`: from the save
to the answer of a staging its path can be read, since only a late unmount meets
it, and leaves a directory. Each step of a handler is then of one of three kinds
(`WorkKinds`): it changes what is at its staging path, what is bound at its
target, or its Secret, never two of them, and the key it holds names the step of
the contract.

For `DriverShutdown`, an invariant of `DirectNode` cannot just be inherited:
`UnmountAll` works on a target without its key, so `Paths`, and with it
`MountOntoDirectory` and `NoUnownedMount`, do not hold any more. What does is
`Steady`: `Control`, `Emptied`, `Answers` and `Saved`. The sweep only empties
paths and forgets entries, the boot loop may run beside it, and every step of
`DirectNode` is its own lemma already. `SweepIsComplete` adds, for the targets
nobody else is at work on (`Apart`), that a live mount is in `mountContext` as
long as `UnmountAll` has not started (`Findable`), and what each of its
goroutines has achieved (`Swept`). `ShutdownServesUntilSweep` carries `Kept`
along until the sweep begins (`Before`), across any number of ends of the
process: whatever `UnmountAll` was in the middle of, the next driver starts
from the Secrets, which the sweep leaves alone, and kubelet believes what it
did.

For `ConfigIsolation`, `Configured` says that while a volume mounts, its config
is one of the users' and its prefix the one of its parameters, also after any
number of restarts (the saved states are such), and `Registered` that what will
be removed is what was loaded. With `PrefixesApart` the sections of two volumes
are then disjoint (`Apart`), and the facts about `SetValues` give the rest.
For `ReadsOwnConfig`, `OwnSections` says that what is loaded for a volume is one
of the configs the isolation may have made of its own, with no other keys in a
section which no half-failed load had left before: nobody else's `SetValue`
reaches it (`OthersKept`), and the volume's own begins with an empty section
(`FreshSection`). A section whose new name is its own is then found under it
(`FoundUnderItsName`). What remains is that rewriting one config, by itself,
keeps its meaning: the premise `RewritesRight`. It is an induction over the
words of a text, out of the provers' reach, and in general false
(`isolation_suffix`); TLC evaluates it for the configs of the run, as a part of
`ReadsOwnConfig`.

For `RecoveryOperator`, `OncePerLoop` is not inductive: between a loop's check
and its delete the other loop deletes and marks, an hour ends, and the operator
may die. `Marked` adds that each pod deleted within the hour is recorded, in
memory or on its owner, or has lapsed (`Recorded`); that a loop about to delete
has deleted no pod of the workload that has not lapsed (`Restrained`); and that
a failed annotation loses nothing while memory has the record (`Remembered`).
`Accounted` says that the pods of older runs are ahead of
the csi loop, passed over by it, or known since it was seeded, whatever the node
does meanwhile; `Found` that what a scan knows of a path was true of a pod that
had started, so that a pod which is not in the later list is gone for good.

Only model-checked: what depends on fairness (`CallAnswered`, `LockReleased`,
`ScanReturns`, `CorruptedRecovered`), since liveness and ENABLED are out of the
prover's reach; and that the references of a given config are rewritten right
(the premise `RewritesRight`). Every safety property of a passing run is a
theorem.

## 5. Not modelled, and why

- *Controller and identity services*: they validate requests, create or delete
  a directory on the remote and answer capabilities; they keep no state.
- *Volume statistics and the health report*: they read `mountContext` and the
  mount, and change nothing.
- *Metrics*: reads driver state for a scrape.
- *The rc server, logging, version, Kubernetes client, gRPC plumbing,
  manifests and charts*: input, output and configuration.
- *Flags and mount options* (`utils.go`, `extractMountOptions` and the like):
  data that no property tells apart.

## 6. Plan

Done: the modules above. What is left, most important first:

1. The plugin and the operator composed on one node: `RecoveryOperator` takes a
   remount to be one step now, and `DirectNode` no operator at all. What the
   orphan unmount and the FUSE abort do to a driver that is just mounting would
   show there.
2. The shutdown in staging mode.
3. An abstract specification of a recovery loop, what a pod may be restarted
   for and how often, and a proof that both loops implement it.

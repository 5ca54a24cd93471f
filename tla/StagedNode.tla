----------------------------- MODULE StagedNode -----------------------------
(***************************************************************************)
(* The node service in staging mode: NodeStageVolume mounts an rclone FUSE *)
(* file system at the volume's staging path, NodePublishVolume binds it to *)
(* a pod's target path and restages it when it looks dead, and a restarted *)
(* driver remounts the staging paths its Secrets name.                     *)
(*                                                                         *)
(* Two families of keys: one per volume for the staging path, one per      *)
(* target. A publish that restages holds both. The attempts to take a key  *)
(* are not counted here (DirectNode does).                                 *)
(***************************************************************************)
EXTENDS Naturals

CONSTANTS
  Targets, Volumes, VolumeOf, Calls,
  NoTarget, NoVolume,
  MaxCrashes,    \* bound: crashes of the driver
  Strays         \* how a mount may stay behind, as in DirectNode

ASSUME ConstantsAssumption ==
  /\ VolumeOf \in [Targets -> Volumes]
  /\ NoTarget \notin Targets /\ NoVolume \notin Volumes
  /\ MaxCrashes \in Nat
  /\ Strays \subseteq {"detach", "daemon"}

VARIABLES
  pc, op, tgt, vol,    \* a call: where it is, its request, its target and volume
  waiting,             \* calls whose caller still waits for the answer
  stageKeys, pubKeys,  \* VolumeLocks: keys "stage-<volume>", "publish-<volume>-<target>"
  loaded, mctx,        \* as in DirectNode, by volume
  cached,              \* NodeServer.stagedVolumes
  store,               \* volumes with a mount-state Secret
  stage,               \* what the kernel has at each staging path
  bind,                \* what it has at each target path
  linger,              \* volumes with a graceful unmount still going on
  dev, acked,          \* what kubelet knows of each volume and target
  boot, serving, crashes

callVars == <<pc, op, tgt, vol>>
keyVars  == <<stageKeys, pubKeys>>
memVars  == <<loaded, mctx, cached>>
bootVars == <<boot, serving, crashes>>
vars == <<callVars, waiting, keyVars, memVars, store, stage, bind, linger, dev, acked, bootVars>>

-----------------------------------------------------------------------------
StageWork == {"rebuild", "stage", "prepare", "load", "mount", "register", "save", "unmount",
              "forget", "staged", "serr"}
TargetWork == {"check", "healthy", "unhealthy", "target", "bind", "unbind", "ok", "err"}
PCs == StageWork \cup TargetWork \cup {"idle", "plock", "slock"}

DeviceOps == {"stage", "unstage"}
PodOps    == {"publish", "unpublish"}

Served  == {"live", "dead"}
Mounted == Served \cup {"corrupt"}

TypeOK ==
  /\ pc \in [Calls -> PCs]
  /\ op \in [Calls -> DeviceOps \cup PodOps]
  /\ tgt \in [Calls -> Targets \cup {NoTarget}]
  /\ vol \in [Calls -> Volumes \cup {NoVolume}]
  /\ \A h \in Calls : pc[h] # "idle" =>
       /\ vol[h] \in Volumes
       /\ op[h] \in PodOps => tgt[h] \in Targets /\ VolumeOf[tgt[h]] = vol[h]
       /\ pc[h] \in TargetWork \cup {"plock"} => op[h] \in PodOps
  /\ waiting \subseteq Calls
  /\ stageKeys \subseteq Volumes /\ pubKeys \subseteq Targets
  /\ loaded \subseteq Volumes /\ mctx \subseteq Volumes /\ cached \subseteq Volumes
  /\ store \subseteq Volumes
  /\ stage \in [Volumes -> Mounted \cup {"absent", "dir"}]
  /\ bind \in [Targets -> {"absent", "dir", "bare", "live", "stale", "corrupt"}]
  /\ linger \subseteq Volumes
  /\ dev \in [Volumes -> {"none", "staged", "unknown", "tearing"}]
  /\ acked \in [Targets -> {"none", "published", "unknown", "tearing"}]
  /\ boot \subseteq Volumes
  /\ serving \in BOOLEAN
  /\ crashes \in 0 .. MaxCrashes

(* The keys a call holds.                                                  *)
HoldsStage(h) == pc[h] \in StageWork
HoldsTarget(h) == op[h] \in PodOps /\ pc[h] \notin {"idle", "plock"}

QuietVolume(v) == \A h \in Calls : vol[h] # v
QuietTarget(t) == \A h \in Calls : tgt[h] # t

(* stageMountHealthy reads the path, then looks at the VFS error count of  *)
(* the entry in mountContext: a bare directory without an entry passes, a  *)
(* mount, or whatever has an entry, may fail.                              *)
LooksHealthy(v)   == stage[v] \in Served \cup {"dir"}
LooksUnhealthy(v) == stage[v] = "dir" => v \in mctx

(* The binds of v lose the mount they were made from.                      *)
Unbacked(v) ==
  [t \in Targets |-> IF VolumeOf[t] = v /\ bind[t] = "live" THEN "stale" ELSE bind[t]]

Goto(h, from, to) ==
  /\ pc[h] = from
  /\ pc' = [pc EXCEPT ![h] = to]
  /\ UNCHANGED <<op, tgt, vol, bootVars>>

(* The caller of h, if it still waits, learns whether h succeeded.         *)
Answer(h, ok) ==
  /\ waiting' = waiting \ {h}
  /\ dev' = IF h \in waiting /\ op[h] = "stage"
              THEN [dev EXCEPT ![vol[h]] = IF ok THEN "staged" ELSE "unknown"]
            ELSE IF h \in waiting /\ op[h] = "unstage" /\ ok
              THEN [dev EXCEPT ![vol[h]] = "none"]
            ELSE dev
  /\ acked' = IF h \in waiting /\ op[h] = "publish"
                THEN [acked EXCEPT ![tgt[h]] = IF ok THEN "published" ELSE "unknown"]
              ELSE IF h \in waiting /\ op[h] = "unpublish" /\ ok
                THEN [acked EXCEPT ![tgt[h]] = "none"]
              ELSE acked

EndCall(h) ==
  /\ pc' = [pc EXCEPT ![h] = "idle"]
  /\ op' = [op EXCEPT ![h] = "stage"]
  /\ tgt' = [tgt EXCEPT ![h] = NoTarget]
  /\ vol' = [vol EXCEPT ![h] = NoVolume]

Init ==
  /\ pc = [h \in Calls |-> "idle"]
  /\ op = [h \in Calls |-> "stage"]
  /\ tgt = [h \in Calls |-> NoTarget]
  /\ vol = [h \in Calls |-> NoVolume]
  /\ waiting = {} /\ stageKeys = {} /\ pubKeys = {}
  /\ loaded = {} /\ mctx = {} /\ cached = {} /\ store = {}
  /\ stage = [v \in Volumes |-> "absent"]
  /\ bind = [t \in Targets |-> "absent"]
  /\ linger = {}
  /\ dev = [v \in Volumes |-> "none"]
  /\ acked = [t \in Targets |-> "none"]
  /\ boot = {} /\ serving = TRUE /\ crashes = 0

-----------------------------------------------------------------------------
(* Kubelet: a device call excludes every other call it waits for on the    *)
(* volume; it publishes while the volume is staged, and unstages when none *)
(* of its targets may be published.                                        *)
Start(h, o, t, v) ==
  /\ serving
  /\ pc[h] = "idle"
  /\ pc' = [pc EXCEPT ![h] = IF o \in PodOps THEN "plock" ELSE "slock"]
  /\ op' = [op EXCEPT ![h] = o]
  /\ tgt' = [tgt EXCEPT ![h] = t]
  /\ vol' = [vol EXCEPT ![h] = v]
  /\ waiting' = waiting \cup {h}
  /\ UNCHANGED <<keyVars, memVars, store, stage, bind, linger, bootVars>>

BeginDevice(h, v, o) ==
  /\ Start(h, o, NoTarget, v)
  /\ \A g \in waiting : vol[g] # v
  /\ o = "unstage" => \A t \in Targets : VolumeOf[t] = v => acked[t] = "none"
  /\ dev' = IF o = "unstage" THEN [dev EXCEPT ![v] = "tearing"] ELSE dev
  /\ UNCHANGED acked

BeginPod(h, t, o) ==
  /\ Start(h, o, t, VolumeOf[t])
  /\ \A g \in waiting : tgt[g] # t /\ (vol[g] = VolumeOf[t] => op[g] \in PodOps)
  /\ o = "publish" => dev[VolumeOf[t]] = "staged" /\ acked[t] # "tearing"
  /\ acked' = IF o = "unpublish" THEN [acked EXCEPT ![t] = "tearing"] ELSE acked
  /\ UNCHANGED dev

(* As in DirectNode, not while the call waits for its first key.           *)
Abandon(h) ==
  /\ h \in waiting
  /\ pc[h] # "plock" /\ (pc[h] = "slock" => op[h] \in PodOps)
  /\ Answer(h, FALSE)
  /\ UNCHANGED <<callVars, keyVars, memVars, store, stage, bind, linger, bootVars>>

TakeTarget(h) ==
  /\ Goto(h, "plock", IF op[h] = "publish" THEN "check" ELSE "unbind")
  /\ tgt[h] \notin pubKeys
  /\ pubKeys' = pubKeys \cup {tgt[h]}
  /\ UNCHANGED <<waiting, stageKeys, memVars, store, stage, bind, linger, dev, acked>>

TakeStage(h) ==
  /\ Goto(h, "slock", CASE op[h] = "stage"   -> "stage"
                        [] op[h] = "unstage" -> "unmount"
                        [] OTHER             -> "rebuild")
  /\ vol[h] \notin stageKeys
  /\ stageKeys' = stageKeys \cup {vol[h]}
  /\ UNCHANGED <<waiting, pubKeys, memVars, store, stage, bind, linger, dev, acked>>

(* Aborted; a publish that could not take the stage key releases its own.  *)
RefuseBusy(h) ==
  /\ \/ pc[h] = "plock" /\ tgt[h] \in pubKeys
     \/ pc[h] = "slock" /\ vol[h] \in stageKeys
  /\ IF HoldsTarget(h)
       THEN /\ Goto(h, "slock", "err")
            /\ UNCHANGED <<waiting, dev, acked>>
       ELSE /\ EndCall(h)
            /\ Answer(h, FALSE)
            /\ UNCHANGED bootVars
  /\ UNCHANGED <<keyVars, memVars, store, stage, bind, linger>>

(* Variants: the error path of a publish keeps the stage key (there is no  *)
(* defer); the publish key goes together with it.                          *)
ReleaseStageOnSuccess(h) ==
  /\ op[h] = "publish"
  /\ Goto(h, "staged", "target") \/ Goto(h, "serr", "err")
  /\ stageKeys' = IF pc[h] = "staged" THEN stageKeys \ {vol[h]} ELSE stageKeys
  /\ UNCHANGED <<waiting, pubKeys, memVars, store, stage, bind, linger, dev, acked>>

ReleaseStageAndTarget(h) ==
  /\ op[h] = "publish"
  /\ Goto(h, "staged", "target") \/ Goto(h, "serr", "err")
  /\ stageKeys' = stageKeys \ {vol[h]}
  /\ pubKeys' = pubKeys \ {tgt[h]}
  /\ UNCHANGED <<waiting, memVars, store, stage, bind, linger, dev, acked>>

(* The end of a call, or of the part of a publish under the stage key.     *)
ReleaseStage(h) ==
  /\ op[h] = "publish"
  /\ Goto(h, "staged", "target") \/ Goto(h, "serr", "err")
  /\ stageKeys' = stageKeys \ {vol[h]}
  /\ UNCHANGED <<waiting, pubKeys, memVars, store, stage, bind, linger, dev, acked>>

Finish(h) ==
  /\ \/ /\ op[h] \in DeviceOps /\ pc[h] \in {"staged", "serr"}
        /\ stageKeys' = stageKeys \ {vol[h]}
        /\ UNCHANGED pubKeys
     \/ /\ pc[h] \in {"ok", "err"}
        /\ pubKeys' = pubKeys \ {tgt[h]}
        /\ UNCHANGED stageKeys
  /\ Answer(h, pc[h] \in {"staged", "ok"})
  /\ EndCall(h)
  /\ UNCHANGED <<memVars, store, stage, bind, linger, bootVars>>

-----------------------------------------------------------------------------
(* unmountVolume of the staging path: with a context, a graceful unmount,  *)
(* which may fail or go on alone, and the end of the sections; then the    *)
(* forced cleanup, which leaves rest or fails.                             *)
TearDown(h, context, from, to, rest) ==
  LET v == vol[h]
      failed == IF stage[v] = "live" /\ context THEN "dead" ELSE stage[v]
      left   == {failed} \cup (IF stage[v] \in Served /\ context THEN {"dir"} ELSE {})
  IN
  /\ linger' \in IF context THEN {linger, linger \cup {v}} ELSE {linger}
  /\ loaded' = IF context THEN loaded \ {v} ELSE loaded
  /\ bind' = IF stage[v] \in Served THEN Unbacked(v) ELSE bind
  /\ \/ /\ Goto(h, from, to)
        /\ stage' = [stage EXCEPT ![v] = rest]
     \/ /\ "detach" \in Strays
        /\ Goto(h, from, "serr")
        /\ stage' \in {[stage EXCEPT ![v] = s] : s \in left}

(* Variant: the entry goes first, so nothing cancels the mount.            *)
CleanStagingForgets(h, from, to) ==
  /\ mctx' = mctx \ {vol[h]}
  /\ \/ /\ Goto(h, from, to)
        /\ stage' = [stage EXCEPT ![vol[h]] = "dir"]
        /\ bind' = IF stage[vol[h]] \in Served THEN Unbacked(vol[h]) ELSE bind
     \/ /\ "detach" \in Strays
        /\ Goto(h, from, "serr")
        /\ UNCHANGED <<stage, bind>>
  /\ UNCHANGED <<waiting, keyVars, loaded, linger, store, dev, acked>>

(* cleanupUnhealthyStagingMount; the directory may not come back.          *)
CleanStaging(h, from, to) ==
  LET context == vol[h] \in mctx IN
  /\ pc[h] = from
  /\ \/ TearDown(h, context, from, to, "dir")
     \/ TearDown(h, context, from, "serr", "absent")
  /\ mctx' = mctx \ {vol[h]}
  /\ UNCHANGED <<waiting, keyVars, store, dev, acked>>

(* stageVolume: a cached volume that looks healthy is done.                *)
AlreadyStaged(h) ==
  /\ Goto(h, "stage", "staged")
  /\ vol[h] \in cached
  /\ LooksHealthy(vol[h])
  /\ UNCHANGED <<waiting, keyVars, memVars, store, stage, bind, linger, dev, acked>>

NotStaged(h) ==
  \/ /\ CleanStaging(h, "stage", "prepare")
     /\ vol[h] \in cached
     /\ LooksUnhealthy(vol[h])
     /\ cached' = cached \ {vol[h]}
  \/ /\ Goto(h, "stage", "prepare")
     /\ vol[h] \notin cached
     /\ UNCHANGED <<waiting, keyVars, memVars, store, stage, bind, linger, dev, acked>>

(* prepareTargetDirectory finds a readable mount: adopt it, or, with VFS   *)
(* errors, clean it up and forget it.                                      *)
AdoptMount(h) ==
  /\ Goto(h, "prepare", "staged")
  /\ stage[vol[h]] \in Served
  /\ cached' = cached \cup {vol[h]}
  /\ UNCHANGED <<waiting, keyVars, loaded, mctx, store, stage, bind, linger, dev, acked>>

(* Variant: a corrupted mount is left in place.                            *)
PrepareStagingKeepsStale(h) ==
  LET v == vol[h] IN
  /\ Goto(h, "prepare", "load")
  /\ stage' = [stage EXCEPT ![v] = IF @ = "absent" THEN "dir" ELSE @]
  /\ UNCHANGED <<waiting, keyVars, memVars, bind, store, linger, dev, acked>>

PrepareStaging(h) ==
  LET v == vol[h] IN
  /\ Goto(h, "prepare", "load")
  /\ stage' = [stage EXCEPT ![v] = "dir"]
  /\ bind' = IF stage[v] \in Served THEN Unbacked(v) ELSE bind
  /\ mctx' \in IF stage[v] \in Served /\ v \in mctx THEN {mctx, mctx \ {v}} ELSE {mctx}
  /\ UNCHANGED <<waiting, keyVars, loaded, cached, store, linger, dev, acked>>

(* It may fail after the mount is gone, and its entry.                     *)
PrepareFails(h) ==
  LET v == vol[h] IN
  /\ Goto(h, "prepare", "serr")
  /\ \/ UNCHANGED <<stage, bind, mctx>>
     \/ /\ stage[v] \in Mounted
        /\ stage' \in {[stage EXCEPT ![v] = s] : s \in {"dir", "absent"}}
        /\ bind' = IF stage[v] \in Served THEN Unbacked(v) ELSE bind
        /\ mctx' \in IF stage[v] \in Served THEN {mctx, mctx \ {v}} ELSE {mctx}
  /\ UNCHANGED <<waiting, keyVars, loaded, cached, store, linger, dev, acked>>

LoadConfig(h) ==
  /\ \/ Goto(h, "load", "mount") /\ loaded' = loaded \cup {vol[h]}
     \/ Goto(h, "load", "serr")  /\ loaded' \in {loaded, loaded \cup {vol[h]}}
  /\ UNCHANGED <<waiting, keyVars, mctx, cached, store, stage, bind, linger, dev, acked>>

(* mountRcloneFilesystem runs in the handler and may never return.         *)
MountStaging(h) ==
  /\ Goto(h, "mount", "register")
  /\ stage' = [stage EXCEPT ![vol[h]] = "live"]
  /\ UNCHANGED <<waiting, keyVars, memVars, store, bind, linger, dev, acked>>

(* setMountContext, setStagedVolume.                                       *)
Register(h) ==
  /\ Goto(h, "register", "save")
  /\ mctx' = mctx \cup {vol[h]}
  /\ cached' = cached \cup {vol[h]}
  /\ UNCHANGED <<waiting, keyVars, loaded, store, stage, bind, linger, dev, acked>>

MountFails(h) ==
  /\ Goto(h, "mount", "serr")
  /\ loaded' = loaded \ {vol[h]}
  /\ \/ UNCHANGED stage
     \/ "daemon" \in Strays /\ stage' = [stage EXCEPT ![vol[h]] = "dead"]
  /\ UNCHANGED <<waiting, keyVars, mctx, cached, store, bind, linger, dev, acked>>

(* Variant: the Secret names the target instead of the volume's staging.   *)
SaveStateOfTarget(h) ==
  /\ Goto(h, "save", "staged")
  /\ store' \in {store, store \cup {tgt[h]}}
  /\ UNCHANGED <<waiting, keyVars, memVars, stage, bind, linger, dev, acked>>

(* SaveState's error is only logged.                                       *)
SaveState(h) ==
  /\ Goto(h, "save", "staged")
  /\ store' \in {store, store \cup {vol[h]}}
  /\ UNCHANGED <<waiting, keyVars, memVars, stage, bind, linger, dev, acked>>

-----------------------------------------------------------------------------
(* Variant: publish cleans up a staging mount before it takes the key.     *)
LookCleansUp(h) ==
  LET v == vol[h] IN
  /\ \/ /\ Goto(h, "check", "healthy")
        /\ LooksHealthy(v)
        /\ UNCHANGED <<stage, bind>>
     \/ /\ Goto(h, "check", "unhealthy")
        /\ LooksUnhealthy(v)
        /\ stage' = [stage EXCEPT ![v] = "dir"]
        /\ bind' = IF stage[v] \in Served THEN Unbacked(v) ELSE bind
  /\ UNCHANGED <<waiting, keyVars, memVars, store, linger, dev, acked>>

(* NodePublishVolume looks at the staging path, then at the cache, without *)
(* the stage key: others may stage or restage the volume in between.       *)
LookAtStaging(h) ==
  /\ \/ Goto(h, "check", "healthy") /\ LooksHealthy(vol[h])
     \/ Goto(h, "check", "unhealthy") /\ LooksUnhealthy(vol[h])
  /\ UNCHANGED <<waiting, keyVars, memVars, store, stage, bind, linger, dev, acked>>

ReadCache(h) ==
  /\ Goto(h, "healthy", IF vol[h] \in cached THEN "target" ELSE "slock")
  /\ UNCHANGED <<waiting, keyVars, memVars, store, stage, bind, linger, dev, acked>>

DropCache(h) ==
  /\ Goto(h, "unhealthy", "slock")
  /\ cached' = cached \ {vol[h]}
  /\ UNCHANGED <<waiting, keyVars, loaded, mctx, store, stage, bind, linger, dev, acked>>

(* rebuildOrRestage; its second look at the path may differ.               *)
RebuildCache(h) ==
  /\ pc[h] = "rebuild" /\ LooksHealthy(vol[h])
  /\ \/ /\ Goto(h, "rebuild", "staged")
        /\ cached' = cached \cup {vol[h]}
     \/ /\ LooksUnhealthy(vol[h])
        /\ Goto(h, "rebuild", "serr")
        /\ UNCHANGED cached
  /\ UNCHANGED <<waiting, keyVars, loaded, mctx, store, stage, bind, linger, dev, acked>>

(* It leaves the cache alone, which another publish may have filled since. *)
Restage(h) ==
  /\ CleanStaging(h, "rebuild", "stage")
  /\ LooksUnhealthy(vol[h])
  /\ UNCHANGED cached

(* prepareTargetDirectory of the target.                                   *)
AlreadyPublished(h) ==
  /\ Goto(h, "target", "ok")
  /\ bind[tgt[h]] \in {"bare", "live", "stale"}
  /\ UNCHANGED <<waiting, keyVars, memVars, store, stage, bind, linger, dev, acked>>

PrepareTarget(h) ==
  /\ pc[h] = "target"
  /\ \/ Goto(h, "target", "bind") /\ bind' = [bind EXCEPT ![tgt[h]] = "dir"]
     \/ Goto(h, "target", "err")
        /\ bind' \in {bind} \cup (IF bind[tgt[h]] \in {"absent", "dir"} THEN {}
                                  ELSE {[bind EXCEPT ![tgt[h]] = "absent"]})
  /\ UNCHANGED <<waiting, keyVars, memVars, store, stage, linger, dev, acked>>

BindOf(v) == CASE stage[v] = "live"    -> "live"
               [] stage[v] = "dead"    -> "stale"
               [] stage[v] = "corrupt" -> "corrupt"
               [] OTHER                -> "bare"

(* Variant: the bind mount's error is dropped.                             *)
BindPublishIgnoresError(h) ==
  /\ Goto(h, "bind", "ok")
  /\ bind' \in {bind, [bind EXCEPT ![tgt[h]] = BindOf(vol[h])]}
  /\ UNCHANGED <<waiting, keyVars, memVars, store, stage, linger, dev, acked>>

BindPublish(h) ==
  /\ \/ /\ Goto(h, "bind", "ok")
        /\ stage[vol[h]] # "absent"
        /\ bind' = [bind EXCEPT ![tgt[h]] = BindOf(vol[h])]
     \/ Goto(h, "bind", "err") /\ UNCHANGED bind
  /\ UNCHANGED <<waiting, keyVars, memVars, store, stage, linger, dev, acked>>

(* NodeUnpublishVolume only unbinds.                                       *)
Unbind(h) ==
  /\ \/ Goto(h, "unbind", "ok") /\ bind' = [bind EXCEPT ![tgt[h]] = "absent"]
     \/ "detach" \in Strays /\ Goto(h, "unbind", "err") /\ UNCHANGED bind
  /\ UNCHANGED <<waiting, keyVars, memVars, store, stage, linger, dev, acked>>

(* NodeUnstageVolume. Without an entry it takes the context that the cache *)
(* holds, if it holds one.                                                 *)
Unstage(h) ==
  /\ \E context \in BOOLEAN :
       /\ pc[h] = "unmount"
       /\ vol[h] \in mctx => context
       /\ context => vol[h] \in mctx \cup cached
       /\ TearDown(h, context, "unmount", "forget", "absent")
  /\ UNCHANGED <<waiting, keyVars, mctx, cached, store, dev, acked>>

(* Variant: the cache outlives the unstage.                                *)
ForgetKeepsCache(h) ==
  /\ Goto(h, "forget", "staged")
  /\ mctx' = mctx \ {vol[h]}
  /\ store' \in {store, store \ {vol[h]}}
  /\ UNCHANGED <<waiting, keyVars, loaded, cached, stage, bind, linger, dev, acked>>

(* An error of DeleteState is only logged.                                 *)
Forget(h) ==
  /\ Goto(h, "forget", "staged")
  /\ mctx' = mctx \ {vol[h]}
  /\ cached' = cached \ {vol[h]}
  /\ store' \in {store, store \ {vol[h]}}
  /\ UNCHANGED <<waiting, keyVars, loaded, stage, bind, linger, dev, acked>>

(* A graceful unmount that outlived its timeout comes through.             *)
LingerEnds(v) ==
  /\ v \in linger
  /\ linger' = linger \ {v}
  /\ stage' = [stage EXCEPT ![v] = IF @ \in Served THEN "dir" ELSE @]
  /\ bind' = IF stage[v] \in Served THEN Unbacked(v) ELSE bind
  /\ UNCHANGED <<callVars, waiting, keyVars, memVars, store, dev, acked, bootVars>>

-----------------------------------------------------------------------------
(* The driver dies; the new one remounts the staging paths of the Secrets  *)
(* before it serves, and leaves the binds of the old mounts as they are.   *)
(* Kubelet keeps what it was told, and has no answer to what it asked.     *)
Crash ==
  /\ crashes < MaxCrashes
  /\ crashes' = crashes + 1
  /\ pc' = [h \in Calls |-> "idle"]
  /\ op' = [h \in Calls |-> "stage"]
  /\ tgt' = [h \in Calls |-> NoTarget]
  /\ vol' = [h \in Calls |-> NoVolume]
  /\ waiting' = {} /\ stageKeys' = {} /\ pubKeys' = {}
  /\ loaded' = {} /\ mctx' = {} /\ cached' = {} /\ linger' = {}
  /\ stage' = [v \in Volumes |-> IF stage[v] \in Served THEN "corrupt" ELSE stage[v]]
  /\ bind' = [t \in Targets |-> IF bind[t] \in {"live", "stale"} THEN "corrupt" ELSE bind[t]]
  /\ dev' = [v \in Volumes |-> IF \E h \in waiting : vol[h] = v /\ op[h] = "stage"
                               THEN "unknown" ELSE dev[v]]
  /\ acked' = [t \in Targets |-> IF \E h \in waiting : tgt[h] = t /\ op[h] = "publish"
                                 THEN "unknown" ELSE acked[t]]
  /\ serving' = FALSE
  /\ boot' \in {store, {}}
  /\ UNCHANGED store

(* RemountState of a staging path. None is readable and mounted at boot,   *)
(* when the process that served it is gone: nothing rebuilds the cache     *)
(* from such a mount.                                                      *)
RemountSucceeds(v) ==
  /\ v \in boot
  /\ boot' = boot \ {v}
  /\ stage' = [stage EXCEPT ![v] = "live"]
  /\ loaded' = loaded \cup {v} /\ mctx' = mctx \cup {v} /\ cached' = cached \cup {v}
  /\ UNCHANGED <<callVars, waiting, keyVars, store, bind, linger, dev, acked, serving, crashes>>

(* It fails before the path is touched; with the path unmounted, removed   *)
(* or emptied, the sections loaded or not; or leaves a mount.              *)
RemountFails(v) ==
  /\ v \in boot
  /\ boot' = boot \ {v}
  /\ \/ UNCHANGED <<stage, loaded>>
     \/ /\ stage[v] = "corrupt"
        /\ stage' = [stage EXCEPT ![v] = "absent"]
        /\ UNCHANGED loaded
     \/ /\ stage' = [stage EXCEPT ![v] = "dir"]
        /\ loaded' \in {loaded, loaded \cup {v}}
     \/ /\ "daemon" \in Strays
        /\ stage' = [stage EXCEPT ![v] = "dead"]
        /\ UNCHANGED loaded
  /\ UNCHANGED <<callVars, waiting, keyVars, mctx, cached, store, bind, linger, dev, acked,
                 serving, crashes>>

StartServing ==
  /\ ~serving
  /\ boot = {}
  /\ serving' = TRUE
  /\ UNCHANGED <<callVars, waiting, keyVars, memVars, store, stage, bind, linger, dev, acked,
                 boot, crashes>>

-----------------------------------------------------------------------------
KeyStep(h) == TakeTarget(h) \/ TakeStage(h) \/ RefuseBusy(h) \/ ReleaseStage(h) \/ Finish(h)
StageStep(h) ==
  \/ AlreadyStaged(h) \/ NotStaged(h) \/ AdoptMount(h) \/ PrepareStaging(h) \/ PrepareFails(h)
  \/ LoadConfig(h) \/ Register(h) \/ SaveState(h)
MountStep(h) == MountStaging(h) \/ MountFails(h)
PublishStep(h) ==
  \/ LookAtStaging(h) \/ ReadCache(h) \/ DropCache(h) \/ RebuildCache(h) \/ Restage(h)
  \/ AlreadyPublished(h) \/ PrepareTarget(h) \/ BindPublish(h)
TakeDownStep(h) == Unbind(h) \/ Unstage(h) \/ Forget(h)
CallStep(h) == KeyStep(h) \/ StageStep(h) \/ PublishStep(h) \/ TakeDownStep(h)
BootStep == StartServing \/ \E v \in Volumes : RemountSucceeds(v) \/ RemountFails(v)

Next ==
  \/ \E h \in Calls, v \in Volumes, o \in DeviceOps : BeginDevice(h, v, o)
  \/ \E h \in Calls, t \in Targets, o \in PodOps : BeginPod(h, t, o)
  \/ \E h \in Calls : Abandon(h) \/ CallStep(h) \/ MountStep(h)
  \/ \E v \in Volumes : LingerEnds(v)
  \/ Crash
  \/ BootStep

Spec == Init /\ [][Next]_vars

-----------------------------------------------------------------------------
(* Both families of keys are held exactly by the calls that work under     *)
(* them, one per key (acquireVolumeLock, stageRelease, defer release).     *)
KeysExclusive ==
  /\ stageKeys = {vol[h] : h \in {g \in Calls : HoldsStage(g)}}
  /\ pubKeys = {tgt[h] : h \in {g \in Calls : HoldsTarget(g)}}
  /\ \A g, h \in Calls : g # h =>
       /\ HoldsStage(g) /\ HoldsStage(h) => vol[g] # vol[h]
       /\ HoldsTarget(g) /\ HoldsTarget(h) => tgt[g] # tgt[h]

(* A staging path is mounted only where prepareTargetDirectory left an     *)
(* empty directory, whoever restages (NodeStageVolume or a publish).       *)
StageOntoDirectory == \A h \in Calls : pc[h] = "mount" => stage[vol[h]] = "dir"

(* No unstage works on a volume while a publish of it, even one whose      *)
(* caller has given up, is between its look at the staging path and the    *)
(* bind, where it does not hold the stage key.                             *)
NoUnstageUnderPublish ==
  \A g, h \in Calls : op[h] = "publish" /\ HoldsTarget(h) /\ vol[g] = vol[h]
                        => ~(op[g] = "unstage" /\ HoldsStage(g))

(* A staging mount whose context lives is in mountContext, where unstage   *)
(* and shutdown look for it, or its handler is about to enter it, and      *)
(* nobody deletes its config sections.                                     *)
NoUnownedStage ==
  \A v \in Volumes : stage[v] = "live" =>
    /\ v \in mctx \/ \E h \in Calls : pc[h] = "register" /\ vol[h] = v
    /\ v \in loaded

(* Once kubelet was told that a volume is unstaged, and nobody works on    *)
(* it, the driver has no mount, no entry and no cache of it, unless a      *)
(* Secret was left from which a restart may have mounted it again.         *)
UnstagedIsClean ==
  \A v \in Volumes : dev[v] = "none" /\ QuietVolume(v) /\ v \notin store =>
    /\ stage[v] \notin Mounted
    /\ v \notin mctx \cup cached
    /\ \A t \in Targets : VolumeOf[t] = v => bind[t] \in {"absent", "dir"}

(* A target kubelet takes for published has a mount of some kind, also     *)
(* after the driver was restarted.                                         *)
PublishedIsBound ==
  \A t \in Targets : acked[t] = "published" /\ QuietTarget(t) => bind[t] \notin {"absent", "dir"}

(* A target kubelet takes for published is not a bind of the bare staging  *)
(* directory: publish "can rebuild in-memory staging state from the        *)
(* healthy staging mount or restage if the mount is stale".                *)
PublishedIsBacked ==
  \A t \in Targets : acked[t] = "published" /\ QuietTarget(t) => bind[t] # "bare"

-----------------------------------------------------------------------------
(* A staging path as the contract sees it.                                 *)
Seen(s) == IF s \in Served    THEN "mount"
           ELSE IF s = "corrupt" THEN "broken"
           ELSE IF s = "absent"  THEN "none"
           ELSE "dir"

(* Staging and publishing implement the contract with kubelet.             *)
Contract == INSTANCE StageContract WITH
  working <- stageKeys,
  busy    <- pubKeys,
  path    <- [v \in Volumes |-> Seen(stage[v])],
  bound   <- {t \in Targets : bind[t] \notin {"absent", "dir"}},
  durable <- store,
  up      <- serving

ContractKept == Contract!Spec
=============================================================================

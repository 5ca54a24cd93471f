------------------------ MODULE StagedNodeClean_proofs ------------------------
(* Proofs about what kubelet was told in staging mode: a published target  *)
(* is bound, nothing is left of an unstaged volume, and staging keeps its  *)
(* contract.                                                               *)
EXTENDS StagedNode_proofs

USE DEF callVars, keyVars, memVars, bootVars

(* Which steps each operation takes.                                       *)
Positions ==
  \A h \in Calls :
    /\ pc[h] = "idle" => op[h] = "stage"
    /\ op[h] = "stage" => pc[h] \notin {"rebuild", "unmount", "forget"}
    /\ op[h] = "unstage" => pc[h] \in {"slock", "unmount", "forget", "staged", "serr"}
    /\ op[h] = "publish" => pc[h] \notin {"idle", "unbind", "unmount", "forget"}
    /\ op[h] = "unpublish" => pc[h] \in {"plock", "unbind", "ok", "err"}

(* Kubelet waits for one call on a target at a time; it has begun to tear  *)
(* down what an unpublish works on, and waits for no publish beside it.    *)
Tearing ==
  /\ \A g, h \in waiting : g # h /\ op[g] \in PodOps => tgt[g] # tgt[h]
  /\ \A h \in Calls : op[h] = "unpublish" => acked[tgt[h]] = "tearing"
  /\ \A g \in waiting, h \in Calls : op[g] = "publish" /\ op[h] = "unpublish" => tgt[g] # tgt[h]

Requests == Positions /\ Tearing

Unbound == {"absent", "dir"}

(* What is bound at a target, given what kubelet was told of it.           *)
Binds ==
  /\ \A h \in Calls : op[h] = "publish" /\ pc[h] = "ok" => bind[tgt[h]] \notin Unbound
  /\ \A h \in Calls : op[h] = "unpublish" /\ pc[h] = "ok" => bind[tgt[h]] \in Unbound
  /\ \A h \in Calls : op[h] = "publish" /\ h \notin waiting => acked[tgt[h]] # "published"
  /\ \A t \in Targets : acked[t] = "published" /\ bind[t] \in Unbound =>
       \E h \in waiting : op[h] = "publish" /\ tgt[h] = t
  /\ \A t \in Targets : acked[t] = "none" /\ bind[t] \notin Unbound =>
       \E h \in Calls : op[h] = "publish" /\ tgt[h] = t

(* Kubelet's view of a volume, while calls on it are under way.            *)
Devices ==
  /\ \A h \in Calls : op[h] = "publish" => dev[vol[h]] \in {"staged", "unknown"}
  /\ \A h \in Calls : op[h] = "unstage" => dev[vol[h]] \in {"tearing", "unknown"}
  /\ \A h \in waiting : op[h] = "unstage" => dev[vol[h]] = "tearing"
  /\ \A h \in Calls \ waiting : op[h] = "stage" /\ pc[h] # "idle" => dev[vol[h]] # "none"

StageClean(v) == stage[v] \notin Mounted /\ v \notin mctx \cup cached

(* What is left of a volume that is not staged.                            *)
Leftovers ==
  /\ boot \subseteq store
  /\ \A t \in Targets : dev[VolumeOf[t]] \in {"none", "tearing"} => bind[t] \in Unbound
  /\ \A h \in Calls : op[h] = "unstage" /\ pc[h] = "staged" => StageClean(vol[h])
  /\ \A v \in Volumes : dev[v] = "none" /\ v \notin store =>
       \/ StageClean(v)
       \/ \E h \in waiting : op[h] = "stage" /\ HoldsStage(h) /\ vol[h] = v

Told == Requests /\ Binds /\ Devices /\ Leftovers

-----------------------------------------------------------------------------
(* What the groups of steps do to the parts of the state told of above.    *)
Moves(h) ==
  /\ \A g \in Calls \ {h} : pc'[g] = pc[g]
  /\ \/ pc[h] = "plock" /\ pc'[h] = IF op[h] = "publish" THEN "check" ELSE "unbind"
     \/ op[h] = "stage" /\ pc[h] = "slock" /\ pc'[h] = "stage"
     \/ op[h] = "unstage" /\ pc[h] = "slock" /\ pc'[h] = "unmount"
     \/ op[h] \in PodOps /\ pc[h] = "slock" /\ pc'[h] = "rebuild"
     \/ op[h] \in PodOps /\ pc[h] = "slock" /\ pc'[h] = "err"
     \/ op[h] = "publish" /\ pc[h] = "staged" /\ pc'[h] = "target"
     \/ op[h] = "publish" /\ pc[h] = "serr" /\ pc'[h] = "err"
  /\ UNCHANGED <<op, tgt, vol, waiting, memVars, store, stage, bind, dev, acked, bootVars>>

Ends(h, ok) ==
  /\ EndCall(h)
  /\ Answer(h, ok)
  /\ \/ ~ok /\ pc[h] = "plock" /\ op[h] \in PodOps
     \/ ~ok /\ pc[h] = "slock" /\ op[h] \in DeviceOps
     \/ op[h] \in DeviceOps /\ HoldsStage(h) /\ (ok => pc[h] = "staged")
     \/ op[h] \in PodOps /\ HoldsTarget(h) /\ (ok => pc[h] = "ok")
  /\ UNCHANGED <<memVars, store, stage, bind, bootVars>>

LEMMA KeyStepKinds ==
  ASSUME TypeOK, NEW h \in Calls, KeyStep(h)
  PROVE  Moves(h) \/ Ends(h, TRUE) \/ Ends(h, FALSE)
<1> USE DEF TypeOK, PCs, StageWork, TargetWork, DeviceOps, PodOps, HoldsStage, HoldsTarget
<1>1. CASE TakeTarget(h)
  BY <1>1 DEF TakeTarget, Goto, Moves
<1>2. CASE TakeStage(h)
  <2>1. /\ Goto(h, "slock", CASE op[h] = "stage"   -> "stage"
                              [] op[h] = "unstage" -> "unmount"
                              [] OTHER             -> "rebuild")
        /\ UNCHANGED <<waiting, memVars, store, stage, bind, dev, acked>>
    BY <1>2 DEF TakeStage
  <2> QED BY <2>1 DEF Goto, Moves
<1>3. CASE RefuseBusy(h)
  <2>1. CASE HoldsTarget(h)
    BY <1>3, <2>1 DEF RefuseBusy, Goto, Moves
  <2>2. CASE ~HoldsTarget(h)
    <3>1. EndCall(h) /\ Answer(h, FALSE) /\ UNCHANGED <<memVars, store, stage, bind, bootVars>>
      BY <1>3, <2>2 DEF RefuseBusy
    <3>2. \/ pc[h] = "plock" /\ op[h] \in PodOps
          \/ pc[h] = "slock" /\ op[h] \in DeviceOps
      BY <1>3, <2>2 DEF RefuseBusy
    <3> QED BY <3>1, <3>2 DEF Ends
  <2> QED BY <2>1, <2>2
<1>4. CASE ReleaseStage(h)
  BY <1>4 DEF ReleaseStage, Goto, Moves
<1>5. CASE Finish(h)
  <2> DEFINE ok == pc[h] \in {"staged", "ok"}
  <2>1. EndCall(h) /\ Answer(h, ok) /\ UNCHANGED <<memVars, store, stage, bind, bootVars>>
    BY <1>5 DEF Finish
  <2>2. \/ op[h] \in DeviceOps /\ HoldsStage(h) /\ (ok => pc[h] = "staged")
        \/ op[h] \in PodOps /\ HoldsTarget(h) /\ (ok => pc[h] = "ok")
    BY <1>5 DEF Finish
  <2>3. ok \in BOOLEAN
    OBVIOUS
  <2> HIDE DEF ok
  <2>4. CASE ok = TRUE
    BY <2>1, <2>2, <2>4 DEF Ends
  <2>5. CASE ok = FALSE
    BY <2>1, <2>2, <2>5 DEF Ends
  <2> QED BY <2>3, <2>4, <2>5
<1> QED BY <1>1, <1>2, <1>3, <1>4, <1>5 DEF KeyStep

(* What the answer to a call says, and what it does not touch.             *)
LEMMA AnswerSays ==
  ASSUME TypeOK, NEW h \in Calls, NEW ok \in BOOLEAN, Answer(h, ok)
  PROVE  /\ waiting' = waiting \ {h}
         /\ h \notin waiting => dev' = dev /\ acked' = acked
         /\ op[h] \in PodOps => dev' = dev
         /\ op[h] \in DeviceOps => acked' = acked
         /\ \A v \in Volumes : v # vol[h] => dev'[v] = dev[v]
         /\ \A t \in Targets : t # tgt[h] => acked'[t] = acked[t]
         /\ \A v \in Volumes : h \in waiting /\ op[h] = "stage" /\ v = vol[h] =>
              dev'[v] = IF ok THEN "staged" ELSE "unknown"
         /\ op[h] = "unstage" /\ ~ok => dev' = dev
         /\ \A v \in Volumes : h \in waiting /\ op[h] = "unstage" /\ ok /\ v = vol[h] => dev'[v] = "none"
         /\ \A t \in Targets : h \in waiting /\ op[h] = "publish" /\ t = tgt[h] =>
              acked'[t] = IF ok THEN "published" ELSE "unknown"
         /\ op[h] = "unpublish" /\ ~ok => acked' = acked
         /\ \A t \in Targets : h \in waiting /\ op[h] = "unpublish" /\ ok /\ t = tgt[h] => acked'[t] = "none"
<1> USE DEF TypeOK, Answer, DeviceOps, PodOps
<1>1. /\ waiting' = waiting \ {h}
      /\ h \notin waiting => dev' = dev /\ acked' = acked
      /\ op[h] \in PodOps => dev' = dev
      /\ op[h] \in DeviceOps => acked' = acked
  OBVIOUS
<1>2. /\ \A v \in Volumes : v # vol[h] => dev'[v] = dev[v]
      /\ \A v \in Volumes : h \in waiting /\ op[h] = "stage" /\ v = vol[h] =>
           dev'[v] = IF ok THEN "staged" ELSE "unknown"
      /\ op[h] = "unstage" /\ ~ok => dev' = dev
      /\ \A v \in Volumes : h \in waiting /\ op[h] = "unstage" /\ ok /\ v = vol[h] => dev'[v] = "none"
  OBVIOUS
<1>3. /\ \A t \in Targets : t # tgt[h] => acked'[t] = acked[t]
      /\ \A t \in Targets : h \in waiting /\ op[h] = "publish" /\ t = tgt[h] =>
           acked'[t] = IF ok THEN "published" ELSE "unknown"
      /\ op[h] = "unpublish" /\ ~ok => acked' = acked
      /\ \A t \in Targets : h \in waiting /\ op[h] = "unpublish" /\ ok /\ t = tgt[h] => acked'[t] = "none"
  OBVIOUS
<1> QED BY <1>1, <1>2, <1>3

LEMMA RefusalSays ==
  ASSUME TypeOK, NEW h \in Calls, Answer(h, FALSE)
  PROVE  /\ waiting' = waiting \ {h}
         /\ h \notin waiting => dev' = dev /\ acked' = acked
         /\ \A v \in Volumes : v # vol[h] \/ op[h] # "stage" => dev'[v] = dev[v]
         /\ \A v \in Volumes : v = vol[h] /\ op[h] = "stage" /\ h \in waiting => dev'[v] = "unknown"
         /\ \A t \in Targets : t # tgt[h] \/ op[h] # "publish" => acked'[t] = acked[t]
         /\ \A t \in Targets : t = tgt[h] /\ op[h] = "publish" /\ h \in waiting => acked'[t] = "unknown"
  BY DEF TypeOK, Answer, DeviceOps, PodOps

LEMMA EndSays ==
  ASSUME NEW h \in Calls, TypeOK, EndCall(h)
  PROVE  /\ pc'[h] = "idle" /\ op'[h] = "stage"
         /\ \A g \in Calls \ {h} : pc'[g] = pc[g] /\ op'[g] = op[g] /\ tgt'[g] = tgt[g] /\ vol'[g] = vol[g]
  BY DEF EndCall, TypeOK

(* A handler's step binds and unbinds its own target, under its key.       *)
LEMMA WorkBinds ==
  ASSUME TypeOK, Positions, NEW h \in Calls, Working(h)
  PROVE  /\ \A t \in Targets : t # tgt[h] \/ ~HoldsTarget(h) \/ op[h] \notin PodOps
              => (bind'[t] \in Unbound <=> bind[t] \in Unbound)
         /\ pc'[h] = "ok" /\ op[h] = "publish" => bind'[tgt[h]] \notin Unbound
         /\ pc'[h] = "ok" /\ op[h] = "unpublish" => bind'[tgt[h]] \in Unbound
         /\ op[h] = "unpublish" => \A t \in Targets : bind[t] \in Unbound => bind'[t] \in Unbound
<1> USE DEF Goto, TypeOK, HoldsTarget, TargetWork, PodOps, Unbound, Unbacked
<1>1. CASE StageStep(h)
  BY <1>1 DEF StageStep, AlreadyStaged, NotStaged, CleanStaging, TearDown, AdoptMount,
     PrepareStaging, PrepareFails, LoadConfig, Register, SaveState
<1>2. CASE MountStep(h)
  BY <1>2 DEF MountStep, MountStaging, MountFails
<1>3. CASE PublishStep(h)
  <2>1. CASE LookAtStaging(h) \/ ReadCache(h) \/ DropCache(h)
    BY <2>1 DEF LookAtStaging, ReadCache, DropCache
  <2>2. CASE RebuildCache(h)
    BY <2>2 DEF RebuildCache
  <2>3. CASE Restage(h)
    BY <2>3 DEF Restage, CleanStaging, TearDown
  <2>4. CASE AlreadyPublished(h)
    BY <2>4 DEF AlreadyPublished, Positions
  <2>5. CASE PrepareTarget(h)
    BY <2>5 DEF PrepareTarget, Positions
  <2>6. CASE BindPublish(h)
    <3>1. BindOf(vol[h]) \notin Unbound
      BY DEF BindOf
    <3> QED BY <2>6, <3>1 DEF BindPublish, Positions
  <2> QED BY <1>3, <2>1, <2>2, <2>3, <2>4, <2>5, <2>6 DEF PublishStep
<1>4. CASE TakeDownStep(h)
  <2>1. CASE Unbind(h)
    BY <2>1 DEF Unbind, Positions
  <2>2. CASE Unstage(h)
    <3>1. UNCHANGED <<mctx, cached, store>>
      BY <2>2 DEF Unstage
    <3>2. PICK context \in BOOLEAN : TearDown(h, context, "unmount", "forget", "absent")
      BY <2>2 DEF Unstage
    <3> QED BY <3>1, <3>2 DEF TearDown
  <2>3. CASE Forget(h)
    BY <2>3 DEF Forget
  <2> QED BY <1>4, <2>1, <2>2, <2>3 DEF TakeDownStep
<1> QED BY <1>1, <1>2, <1>3, <1>4 DEF Working

(* A handler's step touches its own volume alone, under its key.           *)
LEMMA WorkCaches ==
  ASSUME TypeOK, NEW h \in Calls, Working(h), NEW v \in Volumes, v # vol[h] \/ ~HoldsStage(h)
  PROVE  v \in cached' => v \in cached
<1> USE DEF Goto, TypeOK, HoldsStage, StageWork, TargetWork
<1>1. CASE StageStep(h)
  <2>1. CASE NotStaged(h)
    BY <2>1 DEF NotStaged, CleanStaging, TearDown
  <2>2. CASE ~NotStaged(h)
    BY <1>1, <2>2 DEF StageStep, AlreadyStaged, AdoptMount, PrepareStaging, PrepareFails, LoadConfig,
       Register, SaveState
  <2> QED BY <2>1, <2>2
<1>2. CASE MountStep(h)
  BY <1>2 DEF MountStep, MountStaging, MountFails
<1>3. CASE PublishStep(h)
  <2>1. CASE LookAtStaging(h) \/ ReadCache(h) \/ DropCache(h)
    BY <2>1 DEF LookAtStaging, ReadCache, DropCache
  <2>2. CASE RebuildCache(h)
    BY <2>2 DEF RebuildCache
  <2>3. CASE Restage(h)
    BY <2>3 DEF Restage, CleanStaging
  <2>4. CASE AlreadyPublished(h) \/ PrepareTarget(h) \/ BindPublish(h)
    BY <2>4 DEF AlreadyPublished, PrepareTarget, BindPublish
  <2> QED BY <1>3, <2>1, <2>2, <2>3, <2>4 DEF PublishStep
<1>4. CASE TakeDownStep(h)
  BY <1>4 DEF TakeDownStep, Unbind, Unstage, TearDown, Forget
<1> QED BY <1>1, <1>2, <1>3, <1>4 DEF Working

(* Only an unstage removes a Secret or arrives where all is forgotten.     *)
LEMMA WorkForgets ==
  ASSUME TypeOK, Positions, StagePaths, NEW h \in Calls, Working(h)
  PROVE  /\ \A v \in Volumes : v \in store /\ v \notin store' => v = vol[h] /\ op[h] = "unstage"
         /\ op[h] = "unstage" /\ pc'[h] = "staged" => StageClean(vol[h])'
<1> USE DEF Goto, TypeOK
<1>1. CASE StageStep(h)
  BY <1>1 DEF StageStep, AlreadyStaged, NotStaged, CleanStaging, TearDown, AdoptMount,
     PrepareStaging, PrepareFails, LoadConfig, Register, SaveState, Positions
<1>2. CASE MountStep(h)
  BY <1>2 DEF MountStep, MountStaging, MountFails
<1>3. CASE PublishStep(h)
  BY <1>3 DEF PublishStep, LookAtStaging, ReadCache, DropCache, RebuildCache, Restage, CleanStaging, TearDown,
     AlreadyPublished, PrepareTarget, BindPublish, Positions
<1>4. CASE TakeDownStep(h)
  <2>1. CASE Unbind(h)
    BY <2>1 DEF Unbind
  <2>2. CASE Unstage(h)
    <3>1. UNCHANGED <<mctx, cached, store>>
      BY <2>2 DEF Unstage
    <3>2. PICK context \in BOOLEAN : TearDown(h, context, "unmount", "forget", "absent")
      BY <2>2 DEF Unstage
    <3> QED BY <3>1, <3>2 DEF TearDown
  <2>3. CASE Forget(h)
    <3>1. op[h] = "unstage" /\ stage'[vol[h]] = "absent" /\ vol'[h] = vol[h]
      BY <2>3 DEF Forget, Positions, StagePaths, DeviceOps, PodOps
    <3>2. vol[h] \notin mctx' \cup cached'
      BY <2>3 DEF Forget
    <3>3. \A v \in Volumes : v \in store /\ v \notin store' => v = vol[h]
      BY <2>3 DEF Forget
    <3> QED BY <3>1, <3>2, <3>3 DEF StageClean, Mounted, Served
  <2> QED BY <1>4, <2>1, <2>2, <2>3 DEF TakeDownStep
<1> QED BY <1>1, <1>2, <1>3, <1>4 DEF Working

LEMMA WorkPositions ==
  ASSUME TypeOK, Positions, NEW h \in Calls, Working(h)
  PROVE  Positions'
<1>0. Inside(h)
  BY WorkIsInside
<1>1. /\ op[h] = "stage" => pc'[h] \notin {"rebuild", "unmount", "forget"}
      /\ op[h] = "unstage" => pc'[h] \in {"slock", "unmount", "forget", "staged", "serr"}
      /\ op[h] = "publish" => pc'[h] \notin {"idle", "unbind", "unmount", "forget"}
      /\ op[h] = "unpublish" => pc'[h] \in {"plock", "unbind", "ok", "err"}
  <2> USE DEF Goto, TypeOK, Positions
  <2>1. CASE StageStep(h)
    BY <2>1 DEF StageStep, AlreadyStaged, NotStaged, CleanStaging, TearDown, AdoptMount,
       PrepareStaging, PrepareFails, LoadConfig, Register, SaveState
  <2>2. CASE MountStep(h)
    BY <2>2 DEF MountStep, MountStaging, MountFails
  <2>3. CASE PublishStep(h)
    <3>1. pc[h] \in {"check", "healthy", "unhealthy", "rebuild", "target", "bind"} /\ pc[h] # "idle"
      BY <2>3 DEF PublishStep, LookAtStaging, ReadCache, DropCache, RebuildCache, Restage, CleanStaging,
         AlreadyPublished, PrepareTarget, BindPublish
    <3>2. op[h] = "publish"
      BY <3>1 DEF TargetWork, PodOps, DeviceOps
    <3>3. pc'[h] \in {"healthy", "unhealthy", "target", "slock", "staged", "serr", "stage", "ok", "bind", "err"}
      BY <2>3 DEF PublishStep, LookAtStaging, ReadCache, DropCache, RebuildCache, Restage, CleanStaging, TearDown,
         AlreadyPublished, PrepareTarget, BindPublish
    <3> QED BY <3>2, <3>3
  <2>4. CASE TakeDownStep(h)
    <3>1. \/ pc[h] = "unbind" /\ pc'[h] \in {"ok", "err"}
          \/ pc[h] = "unmount" /\ pc'[h] \in {"forget", "serr"}
          \/ pc[h] = "forget" /\ pc'[h] = "staged"
      BY <2>4 DEF TakeDownStep, Unbind, Unstage, TearDown, Forget
    <3> QED BY <3>1 DEF DeviceOps, PodOps, TargetWork
  <2> QED BY <2>1, <2>2, <2>3, <2>4 DEF Working
<1> QED BY <1>0, <1>1 DEF Inside, Positions

(* Where a call that is under way can be.                                  *)
LEMMA UnderWay ==
  ASSUME Control, Positions, NEW h \in Calls, pc[h] # "idle" \/ op[h] # "stage"
  PROVE  /\ pc[h] # "idle" /\ vol[h] \in Volumes
         /\ op[h] \in PodOps => tgt[h] \in Targets /\ VolumeOf[tgt[h]] = vol[h]
         /\ op[h] \in DeviceOps => h \in waiting \/ HoldsStage(h)
         /\ op[h] \in PodOps => h \in waiting \/ HoldsTarget(h)
<1>1. pc[h] # "idle"
  BY DEF Positions, Control, TypeOK, DeviceOps, PodOps
<1>2. /\ vol[h] \in Volumes
      /\ op[h] \in PodOps => tgt[h] \in Targets /\ VolumeOf[tgt[h]] = vol[h]
  BY <1>1 DEF Control, TypeOK
<1>3. op[h] \in DeviceOps => h \in waiting \/ HoldsStage(h)
  BY <1>1 DEF Control, TypeOK, Kubelet, HoldsStage, PCs, TargetWork, DeviceOps, PodOps
<1>4. op[h] \in PodOps => h \in waiting \/ HoldsTarget(h)
  BY <1>1 DEF Control, Kubelet, HoldsTarget
<1> QED BY <1>1, <1>2, <1>3, <1>4

LEMMA PositionsStep == Control /\ Positions /\ [Next]_vars => Positions'
<1> SUFFICES ASSUME Control, Positions, [Next]_vars PROVE Positions'
  OBVIOUS
<1>0. TypeOK
  BY DEF Control
<1>1. ASSUME NEW h \in Calls, NEW v \in Volumes, NEW o \in DeviceOps, BeginDevice(h, v, o)
      PROVE Positions'
  BY <1>0, <1>1 DEF BeginDevice, Start, Positions, TypeOK, DeviceOps, PodOps
<1>2. ASSUME NEW h \in Calls, NEW t \in Targets, NEW o \in PodOps, BeginPod(h, t, o)
      PROVE Positions'
  BY <1>0, <1>2 DEF BeginPod, Start, Positions, TypeOK, DeviceOps, PodOps
<1>3. ASSUME NEW h \in Calls, Abandon(h) PROVE Positions'
  BY <1>3 DEF Abandon, Positions
<1>4. ASSUME NEW h \in Calls, KeyStep(h) PROVE Positions'
  <2>1. CASE Moves(h)
    BY <2>1 DEF Moves, Positions, PodOps
  <2>2. CASE Ends(h, TRUE) \/ Ends(h, FALSE)
    <3>1. EndCall(h)
      BY <2>2 DEF Ends
    <3> QED BY <1>0, <3>1, EndSays DEF Positions
  <2> QED BY <1>0, <1>4, <2>1, <2>2, KeyStepKinds
<1>5. ASSUME NEW h \in Calls, Working(h) PROVE Positions'
  BY <1>0, <1>5, WorkPositions
<1>6. ASSUME NEW v \in Volumes, LingerEnds(v) PROVE Positions'
  BY <1>6 DEF LingerEnds, Positions
<1>7. CASE Crash
  BY <1>7 DEF Crash, Positions
<1>8. CASE BootStep
  BY <1>8 DEF BootStep, StartServing, RemountSucceeds, RemountFails, Positions
<1>9. CASE UNCHANGED vars
  BY <1>9 DEF vars, Positions
<1> QED
  BY <1>1, <1>2, <1>3, <1>4, <1>5, <1>6, <1>7, <1>8, <1>9 DEF Next, CallStep, Working

LEMMA TearingStep == Control /\ Requests /\ [Next]_vars => Tearing'
<1> SUFFICES ASSUME Control, Requests, [Next]_vars PROVE Tearing'
  OBVIOUS
<1>0. TypeOK /\ Positions /\ Tearing
  BY DEF Control, Requests
<1>00. /\ \A h \in waiting : h \in Calls /\ pc[h] # "idle"
       /\ \A h \in Calls : pc[h] = "idle" => op[h] = "stage" /\ h \notin waiting
  BY <1>0 DEF Control, Kubelet, TypeOK, Positions
<1>1. ASSUME NEW h \in Calls, NEW v \in Volumes, NEW o \in DeviceOps, BeginDevice(h, v, o)
      PROVE Tearing'
  <2>1. /\ \A g \in Calls \ {h} : op'[g] = op[g] /\ tgt'[g] = tgt[g]
        /\ op'[h] = o /\ tgt'[h] = NoTarget /\ waiting' = waiting \cup {h} /\ acked' = acked
    BY <1>0, <1>1 DEF BeginDevice, Start, TypeOK
  <2>2. \A g \in waiting : op[g] \in PodOps => tgt[g] \in Targets /\ tgt[g] # NoTarget
    BY <1>0, <1>00, ConstantsAssumption DEF TypeOK
  <2>3. o \notin PodOps /\ o # "publish" /\ o # "unpublish"
    BY DEF DeviceOps, PodOps
  <2> QED BY <1>0, <1>00, <2>1, <2>2, <2>3 DEF Tearing
<1>2. ASSUME NEW h \in Calls, NEW t \in Targets, NEW o \in PodOps, BeginPod(h, t, o)
      PROVE Tearing'
  <2>1. /\ \A g \in Calls \ {h} : op'[g] = op[g] /\ tgt'[g] = tgt[g]
        /\ op'[h] = o /\ tgt'[h] = t /\ waiting' = waiting \cup {h} /\ pc[h] = "idle"
        /\ \A g \in waiting : tgt[g] # t
        /\ o = "publish" => acked[t] # "tearing"
        /\ acked' = IF o = "unpublish" THEN [acked EXCEPT ![t] = "tearing"] ELSE acked
    BY <1>0, <1>2 DEF BeginPod, Start, TypeOK
  <2>2. /\ \A u \in Targets : acked[u] = "tearing" => acked'[u] = "tearing"
        /\ o = "unpublish" => acked'[t] = "tearing"
    BY <1>0, <2>1 DEF TypeOK
  <2>3. \A g \in Calls : op[g] = "unpublish" => tgt[g] \in Targets
    BY <1>0, UnderWay DEF PodOps
  <2> QED BY <1>0, <1>00, <2>1, <2>2, <2>3 DEF Tearing
<1>3. ASSUME NEW h \in Calls, Abandon(h) PROVE Tearing'
  <2>1. Answer(h, FALSE) /\ UNCHANGED <<op, tgt>> /\ h \in waiting
    BY <1>3 DEF Abandon
  <2>2. /\ waiting' = waiting \ {h}
        /\ \A t \in Targets : t # tgt[h] \/ op[h] # "publish" => acked'[t] = acked[t]
    BY <1>0, <2>1, RefusalSays
  <2>3. \A g \in Calls : op[g] = "unpublish" => tgt[g] \in Targets
    BY <1>0, UnderWay DEF PodOps
  <2> QED BY <1>0, <2>1, <2>2, <2>3 DEF Tearing
<1>4. ASSUME NEW h \in Calls, KeyStep(h) PROVE Tearing'
  <2>1. CASE Moves(h)
    BY <1>0, <2>1 DEF Moves, Tearing
  <2>2. ASSUME NEW ok \in BOOLEAN, Ends(h, ok) PROVE Tearing'
    <3>1. EndCall(h) /\ Answer(h, ok)
      BY <2>2 DEF Ends
    <3>2. /\ waiting' = waiting \ {h} /\ op'[h] = "stage"
          /\ \A g \in Calls \ {h} : op'[g] = op[g] /\ tgt'[g] = tgt[g]
      BY <1>0, <3>1, EndSays, AnswerSays
    <3>3. \A g \in waiting' : g \in waiting /\ g \in Calls \ {h}
      BY <1>00, <3>2
    <3>4. ASSUME NEW g \in Calls, op'[g] = "unpublish" PROVE acked'[tgt'[g]] = "tearing"
      <4>1. g # h /\ op[g] = "unpublish" /\ tgt'[g] = tgt[g]
        BY <3>2, <3>4
      <4>2. tgt[g] \in Targets /\ acked[tgt[g]] = "tearing" /\ (g \in waiting \/ HoldsTarget(g))
        BY <1>0, <4>1, UnderWay DEF PodOps, Tearing
      <4>3. tgt[g] = tgt[h] /\ h \in waiting => op[h] # "publish"
        BY <1>0, <4>1 DEF Tearing
      <4>4. tgt[g] = tgt[h] /\ h \in waiting /\ op[h] = "unpublish" => ~ok
        <5> SUFFICES ASSUME tgt[g] = tgt[h], h \in waiting, op[h] = "unpublish", ok PROVE FALSE
          OBVIOUS
        <5>1. HoldsTarget(h)
          BY <2>2 DEF Ends, DeviceOps
        <5>2. ~HoldsTarget(g)
          BY <4>1, <5>1 DEF Control, TargetOwned
        <5> QED BY <1>0, <4>1, <4>2, <5>2 DEF Tearing, PodOps
      <4>5. acked'[tgt[g]] = acked[tgt[g]]
        BY <1>0, <3>1, <4>2, <4>3, <4>4, AnswerSays DEF TypeOK, DeviceOps, PodOps
      <4> QED BY <4>1, <4>2, <4>5
    <3> QED BY <1>0, <1>00, <3>2, <3>3, <3>4 DEF Tearing
  <2> QED BY <1>0, <1>4, <2>1, <2>2, KeyStepKinds
<1>5. ASSUME NEW h \in Calls, Working(h) PROVE Tearing'
  BY <1>0, <1>5, WorkIsInside DEF Inside, Tearing
<1>6. ASSUME NEW v \in Volumes, LingerEnds(v) PROVE Tearing'
  BY <1>0, <1>6 DEF LingerEnds, Tearing
<1>7. CASE Crash
  BY <1>7 DEF Crash, Tearing
<1>8. CASE BootStep
  BY <1>0, <1>8 DEF BootStep, StartServing, RemountSucceeds, RemountFails, Tearing
<1>9. CASE UNCHANGED vars
  BY <1>0, <1>9 DEF vars, Tearing
<1> QED
  BY <1>1, <1>2, <1>3, <1>4, <1>5, <1>6, <1>7, <1>8, <1>9 DEF Next, CallStep, Working

(* No other call at work on a target of a call that holds its key.         *)
LEMMA AloneOnTarget ==
  ASSUME Control, NEW g \in Calls, NEW h \in Calls, g # h, HoldsTarget(g), HoldsTarget(h)
  PROVE  tgt[g] # tgt[h]
  BY DEF Control, TargetOwned

LEMMA AloneOnVolume ==
  ASSUME Control, NEW g \in Calls, NEW h \in Calls, g # h, HoldsStage(g), HoldsStage(h)
  PROVE  vol[g] # vol[h]
  BY DEF Control, StageOwned

LEMMA UnbackedIsBound ==
  ASSUME TypeOK, NEW v \in Volumes, NEW t \in Targets
  PROVE  Unbacked(v)[t] \in Unbound <=> bind[t] \in Unbound
  BY DEF Unbacked, Unbound

LEMMA BindsStep == Control /\ Requests /\ Binds /\ [Next]_vars => Binds'
<1> SUFFICES ASSUME Control, Requests, Binds, [Next]_vars PROVE Binds'
  OBVIOUS
<1>0. TypeOK /\ Positions /\ Tearing
  BY DEF Control, Requests
<1>00. \A h \in Calls : op[h] \in PodOps => /\ pc[h] # "idle" /\ vol[h] \in Volumes /\ tgt[h] \in Targets
                                            /\ h \in waiting \/ HoldsTarget(h)
  BY <1>0, UnderWay DEF Control, Positions, PodOps
<1>1. ASSUME NEW h \in Calls, NEW v \in Volumes, NEW o \in DeviceOps, BeginDevice(h, v, o)
      PROVE Binds'
  <2>1. /\ \A g \in Calls \ {h} : pc'[g] = pc[g] /\ op'[g] = op[g] /\ tgt'[g] = tgt[g]
        /\ op[h] = "stage" /\ op'[h] = o /\ waiting' = waiting \cup {h} /\ UNCHANGED <<acked, bind>>
    BY <1>0, <1>1 DEF BeginDevice, Start, TypeOK, Positions
  <2>2. o # "publish" /\ o # "unpublish"
    BY DEF DeviceOps
  <2> QED BY <1>0, <2>1, <2>2 DEF Binds, TypeOK
<1>2. ASSUME NEW h \in Calls, NEW t \in Targets, NEW o \in PodOps, BeginPod(h, t, o)
      PROVE Binds'
  <2>1. /\ \A g \in Calls \ {h} : pc'[g] = pc[g] /\ op'[g] = op[g] /\ tgt'[g] = tgt[g]
        /\ op[h] = "stage" /\ pc'[h] = "plock" /\ op'[h] = o /\ tgt'[h] = t
        /\ waiting' = waiting \cup {h} /\ bind' = bind
        /\ \A u \in Targets : acked'[u] = acked[u] \/ acked'[u] = "tearing"
    BY <1>0, <1>2 DEF BeginPod, Start, TypeOK, Positions
  <2> QED BY <1>0, <1>00, <2>1 DEF Binds, TypeOK, PodOps
<1>3. ASSUME NEW h \in Calls, Abandon(h) PROVE Binds'
  <2>1. Answer(h, FALSE) /\ UNCHANGED <<pc, op, tgt, bind>> /\ h \in waiting
    BY <1>3 DEF Abandon
  <2>2. /\ waiting' = waiting \ {h}
        /\ \A t \in Targets : t # tgt[h] \/ op[h] # "publish" => acked'[t] = acked[t]
        /\ \A t \in Targets : t = tgt[h] /\ op[h] = "publish" => acked'[t] = "unknown"
    BY <1>0, <2>1, RefusalSays
  <2> QED BY <1>0, <1>00, <2>1, <2>2 DEF Binds, TypeOK, PodOps
<1>4. ASSUME NEW h \in Calls, KeyStep(h) PROVE Binds'
  <2>1. CASE Moves(h)
    BY <1>0, <2>1 DEF Moves, Binds, TypeOK
  <2>2. ASSUME NEW ok \in BOOLEAN, Ends(h, ok) PROVE Binds'
    <3>1. EndCall(h) /\ Answer(h, ok) /\ bind' = bind
      BY <2>2 DEF Ends
    <3>2. /\ waiting' = waiting \ {h} /\ op'[h] = "stage"
          /\ \A g \in Calls \ {h} : pc'[g] = pc[g] /\ op'[g] = op[g] /\ tgt'[g] = tgt[g]
      BY <1>0, <3>1, EndSays, AnswerSays
    <3>3. /\ h \notin waiting => acked' = acked
          /\ \A t \in Targets : t # tgt[h] => acked'[t] = acked[t]
          /\ \A t \in Targets : h \in waiting /\ op[h] = "publish" /\ t = tgt[h] =>
               acked'[t] = IF ok THEN "published" ELSE "unknown"
          /\ op[h] = "unpublish" /\ ~ok => acked' = acked
          /\ \A t \in Targets : h \in waiting /\ op[h] = "unpublish" /\ ok /\ t = tgt[h] => acked'[t] = "none"
          /\ op[h] \notin PodOps => acked' = acked
      BY <1>0, <3>1, AnswerSays DEF TypeOK
    <3>4. ok /\ op[h] \in PodOps => pc[h] = "ok" /\ HoldsTarget(h)
      BY <2>2 DEF Ends, DeviceOps, PodOps
    <3>5. ASSUME NEW g \in Calls, op'[g] = "publish", g \notin waiting' PROVE acked'[tgt'[g]] # "published"
      <4>1. /\ g # h /\ op[g] = "publish" /\ tgt'[g] = tgt[g] /\ g \notin waiting
            /\ tgt[g] \in Targets /\ HoldsTarget(g) /\ acked[tgt[g]] # "published"
        BY <1>00, <3>2, <3>5 DEF PodOps, Binds
      <4>2. HoldsTarget(h) => tgt[g] # tgt[h]
        BY <4>1, AloneOnTarget
      <4>3. op[h] \in PodOps => op[h] = "publish" \/ op[h] = "unpublish"
        BY DEF PodOps
      <4> QED BY <3>3, <3>4, <4>1, <4>2, <4>3 DEF PodOps
    <3>6. ASSUME NEW t \in Targets, acked'[t] = "published", bind'[t] \in Unbound
          PROVE \E g \in waiting' : op'[g] = "publish" /\ tgt'[g] = t
      <4>1. ~(h \in waiting /\ op[h] = "publish" /\ t = tgt[h])
        BY <3>1, <3>3, <3>4, <3>6 DEF Binds, PodOps
      <4>2. acked[t] = "published"
        BY <3>3, <3>6, <4>1 DEF PodOps
      <4>3. PICK g \in waiting : op[g] = "publish" /\ tgt[g] = t
        BY <3>1, <3>6, <4>2 DEF Binds
      <4>4. g # h /\ g \in Calls
        BY <1>0, <4>1, <4>3 DEF TypeOK
      <4> QED BY <3>2, <4>3, <4>4
    <3>7. ASSUME NEW t \in Targets, acked'[t] = "none", bind'[t] \notin Unbound
          PROVE \E g \in Calls : op'[g] = "publish" /\ tgt'[g] = t
      <4>1. ~(h \in waiting /\ op[h] = "unpublish" /\ ok /\ t = tgt[h])
        BY <3>1, <3>4, <3>7 DEF Binds, PodOps
      <4>2. acked[t] = "none" /\ ~(op[h] = "publish" /\ h \in waiting /\ t = tgt[h])
        BY <3>3, <3>7, <4>1 DEF PodOps
      <4>3. PICK g \in Calls : op[g] = "publish" /\ tgt[g] = t
        BY <3>1, <3>7, <4>2 DEF Binds
      <4>4. g \in waiting
        BY <1>00, <4>2, <4>3 DEF Control, Kubelet, PodOps
      <4>5. g # h
        BY <4>2, <4>3, <4>4
      <4> QED BY <3>2, <4>3, <4>5
    <3>8. \A g \in Calls : /\ op'[g] = "publish" /\ pc'[g] = "ok" => bind'[tgt'[g]] \notin Unbound
                           /\ op'[g] = "unpublish" /\ pc'[g] = "ok" => bind'[tgt'[g]] \in Unbound
      BY <3>1, <3>2 DEF Binds
    <3> QED BY <3>5, <3>6, <3>7, <3>8 DEF Binds
  <2> QED BY <1>0, <1>4, <2>1, <2>2, KeyStepKinds
<1>5. ASSUME NEW h \in Calls, Working(h) PROVE Binds'
  <2>1. /\ \A g \in Calls \ {h} : pc'[g] = pc[g]
        /\ UNCHANGED <<op, tgt, waiting, acked>>
    BY <1>0, <1>5, WorkIsInside DEF Inside
  <2>2. /\ \A t \in Targets : t # tgt[h] \/ ~HoldsTarget(h) \/ op[h] \notin PodOps
             => (bind'[t] \in Unbound <=> bind[t] \in Unbound)
        /\ pc'[h] = "ok" /\ op[h] = "publish" => bind'[tgt[h]] \notin Unbound
        /\ pc'[h] = "ok" /\ op[h] = "unpublish" => bind'[tgt[h]] \in Unbound
    BY <1>0, <1>5, WorkBinds
  <2>3. ASSUME NEW g \in Calls, g # h, pc[g] = "ok", op[g] \in PodOps
        PROVE  bind'[tgt[g]] \in Unbound <=> bind[tgt[g]] \in Unbound
    <3>1. HoldsTarget(g) /\ tgt[g] \in Targets
      BY <1>00, <2>3 DEF HoldsTarget
    <3>2. tgt[g] # tgt[h] \/ ~HoldsTarget(h)
      BY <2>3, <3>1, AloneOnTarget
    <3> QED BY <2>2, <3>1, <3>2
  <2>4. \A g \in Calls : /\ op'[g] = "publish" /\ pc'[g] = "ok" => bind'[tgt'[g]] \notin Unbound
                         /\ op'[g] = "unpublish" /\ pc'[g] = "ok" => bind'[tgt'[g]] \in Unbound
    BY <2>1, <2>2, <2>3 DEF Binds, PodOps
  <2>5. ASSUME NEW t \in Targets, acked[t] # "tearing", ~(bind'[t] \in Unbound <=> bind[t] \in Unbound)
        PROVE  op[h] = "publish" /\ tgt[h] = t
    BY <1>0, <2>2, <2>5 DEF PodOps, Tearing
  <2>6. ASSUME NEW t \in Targets, acked[t] = "published", bind'[t] \in Unbound
        PROVE  \E g \in waiting : op[g] = "publish" /\ tgt[g] = t
    BY <2>5, <2>6 DEF Binds
  <2>7. ASSUME NEW t \in Targets, acked[t] = "none", bind'[t] \notin Unbound
        PROVE  \E g \in Calls : op[g] = "publish" /\ tgt[g] = t
    BY <2>5, <2>7 DEF Binds
  <2> QED BY <2>1, <2>4, <2>6, <2>7 DEF Binds
<1>6. ASSUME NEW v \in Volumes, LingerEnds(v) PROVE Binds'
  <2>1. \A t \in Targets : bind'[t] \in Unbound <=> bind[t] \in Unbound
    BY <1>0, <1>6, UnbackedIsBound DEF LingerEnds
  <2>2. UNCHANGED <<pc, op, tgt, waiting, acked>>
    BY <1>6 DEF LingerEnds
  <2> QED BY <1>00, <2>1, <2>2 DEF Binds, PodOps
<1>7. CASE Crash
  <2>1. /\ \A h \in Calls : op'[h] = "stage"
        /\ \A t \in Targets : acked'[t] = "published" =>
             acked[t] = "published" /\ ~\E h \in waiting : tgt[h] = t /\ op[h] = "publish"
        /\ \A t \in Targets : acked'[t] = "none" =>
             acked[t] = "none" /\ ~\E h \in waiting : tgt[h] = t /\ op[h] = "publish"
        /\ \A t \in Targets : bind'[t] \notin Unbound <=> bind[t] \notin Unbound
    BY <1>7 DEF Crash, Unbound
  <2>2. ASSUME NEW t \in Targets, acked'[t] = "none" PROVE bind'[t] \in Unbound
    <3>1. \A h \in Calls : ~(op[h] = "publish" /\ tgt[h] = t)
      BY <1>00, <2>1, <2>2 DEF Control, Kubelet, PodOps
    <3> QED BY <2>1, <2>2, <3>1 DEF Binds
  <2>3. \A t \in Targets : acked'[t] = "published" => bind'[t] \notin Unbound
    BY <2>1 DEF Binds
  <2> QED BY <2>1, <2>2, <2>3 DEF Binds
<1>8. CASE BootStep
  BY <1>8 DEF BootStep, StartServing, RemountSucceeds, RemountFails, Binds
<1>9. CASE UNCHANGED vars
  BY <1>9 DEF vars, Binds
<1> QED
  BY <1>1, <1>2, <1>3, <1>4, <1>5, <1>6, <1>7, <1>8, <1>9 DEF Next, CallStep, Working

LEMMA DevicesStep == Control /\ Requests /\ Devices /\ [Next]_vars => Devices'
<1> SUFFICES ASSUME Control, Requests, Devices, [Next]_vars PROVE Devices'
  OBVIOUS
<1>0. TypeOK /\ Positions /\ Kubelet
  BY DEF Control, Requests
<1>00. \A h \in Calls : op[h] # "stage" \/ pc[h] # "idle" =>
         /\ pc[h] # "idle" /\ vol[h] \in Volumes
         /\ op[h] \in DeviceOps => h \in waiting \/ HoldsStage(h)
         /\ op[h] \in PodOps => tgt[h] \in Targets /\ VolumeOf[tgt[h]] = vol[h]
  BY <1>0, UnderWay
<1>1. ASSUME NEW h \in Calls, NEW v \in Volumes, NEW o \in DeviceOps, BeginDevice(h, v, o)
      PROVE Devices'
  <2>1. /\ \A g \in Calls \ {h} : pc'[g] = pc[g] /\ op'[g] = op[g] /\ vol'[g] = vol[g]
        /\ op'[h] = o /\ vol'[h] = v /\ waiting' = waiting \cup {h}
        /\ \A g \in waiting : vol[g] # v
        /\ o = "unstage" => \A t \in Targets : VolumeOf[t] = v => acked[t] = "none"
        /\ \A u \in Volumes : dev'[u] = IF o = "unstage" /\ u = v THEN "tearing" ELSE dev[u]
    BY <1>0, <1>1 DEF BeginDevice, Start, TypeOK
  <2>2. ASSUME NEW g \in Calls, op'[g] = "publish" PROVE dev'[vol'[g]] \in {"staged", "unknown"}
    <3>1. g # h /\ op[g] = "publish" /\ vol'[g] = vol[g]
      BY <2>1, <2>2 DEF DeviceOps
    <3>2. ~(o = "unstage" /\ vol[g] = v)
      BY <1>00, <2>1, <3>1 DEF Kubelet, Control, PodOps
    <3> QED BY <1>00, <2>1, <3>1, <3>2 DEF Devices
  <2>3. ASSUME NEW g \in Calls, op'[g] # "publish", pc'[g] # "idle", op'[g] \in DeviceOps
        PROVE /\ op'[g] = "unstage" => dev'[vol'[g]] \in {"tearing", "unknown"}
              /\ op'[g] = "unstage" /\ g \in waiting' => dev'[vol'[g]] = "tearing"
              /\ op'[g] = "stage" /\ g \notin waiting' => dev'[vol'[g]] # "none"
    <3>1. CASE g = h
      BY <2>1, <3>1 DEF DeviceOps
    <3>2. CASE g # h
      BY <1>00, <2>1, <2>3, <3>2 DEF Devices
    <3> QED BY <3>1, <3>2
  <2>4. Positions' /\ waiting' \subseteq Calls
    BY <1>0, <2>1, PositionsStep DEF Control, TypeOK
  <2> QED BY <2>2, <2>3, <2>4 DEF Devices, Positions, DeviceOps
<1>2. ASSUME NEW h \in Calls, NEW t \in Targets, NEW o \in PodOps, BeginPod(h, t, o)
      PROVE Devices'
  <2>1. /\ \A g \in Calls \ {h} : pc'[g] = pc[g] /\ op'[g] = op[g] /\ vol'[g] = vol[g]
        /\ op'[h] = o /\ vol'[h] = VolumeOf[t] /\ waiting' = waiting \cup {h}
        /\ o = "publish" => dev[VolumeOf[t]] = "staged"
        /\ dev' = dev
    BY <1>0, <1>2 DEF BeginPod, Start, TypeOK
  <2>2. o # "stage" /\ o # "unstage"
    BY DEF PodOps
  <2> QED BY <1>0, <2>1, <2>2 DEF Devices, TypeOK
<1>3. ASSUME NEW h \in Calls, Abandon(h) PROVE Devices'
  <2>1. Answer(h, FALSE) /\ UNCHANGED <<pc, op, vol>> /\ h \in waiting
    BY <1>3 DEF Abandon
  <2>2. /\ waiting' = waiting \ {h}
        /\ \A v \in Volumes : v # vol[h] \/ op[h] # "stage" => dev'[v] = dev[v]
        /\ \A v \in Volumes : v = vol[h] /\ op[h] = "stage" => dev'[v] = "unknown"
    BY <1>0, <2>1, RefusalSays
  <2>3. \A g \in waiting : op[g] = "unstage" /\ vol[g] = vol[h] => op[h] # "stage"
    BY <1>0, <2>1 DEF Kubelet, DeviceOps
  <2>4. \A g \in Calls : op[g] # "stage" \/ pc[g] # "idle" => vol[g] \in Volumes
    BY <1>00
  <2> QED BY <1>0, <2>1, <2>2, <2>3, <2>4 DEF Devices, TypeOK
<1>4. ASSUME NEW h \in Calls, KeyStep(h) PROVE Devices'
  <2>1. CASE Moves(h)
    BY <1>0, <2>1 DEF Moves, Devices, Positions, TypeOK
  <2>2. ASSUME NEW ok \in BOOLEAN, Ends(h, ok) PROVE Devices'
    <3>1. EndCall(h) /\ Answer(h, ok)
      BY <2>2 DEF Ends
    <3>2. /\ waiting' = waiting \ {h} /\ op'[h] = "stage" /\ pc'[h] = "idle"
          /\ \A g \in Calls \ {h} : pc'[g] = pc[g] /\ op'[g] = op[g] /\ vol'[g] = vol[g]
      BY <1>0, <3>1, EndSays, AnswerSays
    <3>3. /\ \A v \in Volumes : dev'[v] = dev[v] \/ (v = vol[h] /\ h \in waiting /\ op[h] \in DeviceOps)
          /\ \A v \in Volumes : h \in waiting /\ op[h] = "stage" /\ v = vol[h] =>
               dev'[v] = IF ok THEN "staged" ELSE "unknown"
          /\ op[h] = "unstage" /\ ~ok => dev' = dev
          /\ \A v \in Volumes : h \in waiting /\ op[h] = "unstage" /\ ok /\ v = vol[h] => dev'[v] = "none"
      <4>1. op[h] \in DeviceOps \/ op[h] \in PodOps
        BY <1>0 DEF TypeOK
      <4> QED BY <1>0, <3>1, <4>1, AnswerSays DEF TypeOK
    <3>4. ok /\ op[h] \in DeviceOps => HoldsStage(h)
      BY <2>2 DEF Ends, DeviceOps, PodOps
    <3>5. op[h] \in DeviceOps => op[h] = "stage" \/ op[h] = "unstage"
      BY DEF DeviceOps
    <3>6. ASSUME NEW g \in Calls, g # h, op[g] # "stage" \/ pc[g] # "idle", vol[g] = vol[h],
                 h \in waiting, op[h] \in DeviceOps
          PROVE  /\ op[g] \in DeviceOps => g \notin waiting /\ HoldsStage(g) /\ ~ok
                 /\ op[g] = "publish" => op[h] = "stage"
      <4>1. op[g] \in DeviceOps => g \notin waiting /\ HoldsStage(g)
        BY <1>0, <1>00, <3>6 DEF Kubelet
      <4>2. op[g] \in DeviceOps => ~ok
        BY <3>4, <3>6, <4>1, AloneOnVolume
      <4>3. op[g] = "publish" => op[h] # "unstage"
        BY <1>0, <1>00, <3>6 DEF Kubelet
      <4> QED BY <3>5, <3>6, <4>1, <4>2, <4>3
    <3>7. ASSUME NEW g \in Calls, g # h, op[g] # "stage" \/ pc[g] # "idle"
          PROVE  /\ op[g] = "publish" => dev'[vol[g]] \in {"staged", "unknown"}
                 /\ op[g] = "unstage" => dev'[vol[g]] \in {"tearing", "unknown"}
                 /\ op[g] = "unstage" /\ g \in waiting => dev'[vol[g]] = "tearing"
                 /\ op[g] = "stage" /\ g \notin waiting => dev'[vol[g]] # "none"
      <4>1. vol[g] \in Volumes /\ pc[g] # "idle"
        BY <1>00, <3>7
      <4>2. CASE dev'[vol[g]] = dev[vol[g]]
        BY <4>1, <4>2 DEF Devices
      <4>3. CASE vol[g] = vol[h] /\ h \in waiting /\ op[h] \in DeviceOps
        BY <3>3, <3>5, <3>6, <3>7, <4>1, <4>2, <4>3 DEF DeviceOps
      <4> QED BY <3>3, <4>1, <4>2, <4>3
    <3>8. waiting' \subseteq Calls
      BY <1>0, <3>2 DEF TypeOK
    <3> QED BY <3>2, <3>7, <3>8 DEF Devices
  <2> QED BY <1>0, <1>4, <2>1, <2>2, KeyStepKinds
<1>5. ASSUME NEW h \in Calls, Working(h) PROVE Devices'
  BY <1>0, <1>5, WorkIsInside DEF Inside, Devices, TypeOK, StageWork, TargetWork
<1>6. ASSUME NEW v \in Volumes, LingerEnds(v) PROVE Devices'
  BY <1>6 DEF LingerEnds, Devices
<1>7. CASE Crash
  BY <1>7 DEF Crash, Devices
<1>8. CASE BootStep
  BY <1>8 DEF BootStep, StartServing, RemountSucceeds, RemountFails, Devices
<1>9. CASE UNCHANGED vars
  BY <1>9 DEF vars, Devices
<1> QED
  BY <1>1, <1>2, <1>3, <1>4, <1>5, <1>6, <1>7, <1>8, <1>9 DEF Next, CallStep, Working

LEMMA LeftoversStep == Control /\ Safe /\ Told /\ [Next]_vars => Leftovers'
<1> SUFFICES ASSUME Control, Safe, Told, [Next]_vars PROVE Leftovers'
  OBVIOUS
<1>0. TypeOK /\ Kubelet /\ Positions /\ Tearing /\ Binds /\ Devices /\ Leftovers
  BY DEF Control, Told, Requests
<1>00. \A h \in Calls : op[h] # "stage" \/ pc[h] # "idle" =>
         /\ pc[h] # "idle" /\ vol[h] \in Volumes
         /\ op[h] \in PodOps => tgt[h] \in Targets /\ VolumeOf[tgt[h]] = vol[h]
  BY <1>0, UnderWay
<1>01. \A t \in Targets : VolumeOf[t] \in Volumes
  BY ConstantsAssumption
<1>1. ASSUME NEW h \in Calls, NEW v \in Volumes, NEW o \in DeviceOps, BeginDevice(h, v, o)
      PROVE Leftovers'
  <2>1. /\ \A g \in Calls \ {h} : pc'[g] = pc[g] /\ op'[g] = op[g] /\ vol'[g] = vol[g]
        /\ pc[h] = "idle" /\ pc'[h] = "slock" /\ waiting' = waiting \cup {h}
        /\ \A g \in waiting : vol[g] # v
        /\ o = "unstage" => \A t \in Targets : VolumeOf[t] = v => acked[t] = "none"
        /\ \A u \in Volumes : dev'[u] = IF o = "unstage" /\ u = v THEN "tearing" ELSE dev[u]
        /\ UNCHANGED <<mctx, cached, store, stage, bind, boot>>
    BY <1>0, <1>1 DEF BeginDevice, Start, TypeOK, DeviceOps, PodOps
  <2>2. ASSUME NEW t \in Targets, dev'[VolumeOf[t]] \in {"none", "tearing"} PROVE bind'[t] \in Unbound
    <3>1. CASE o = "unstage" /\ VolumeOf[t] = v
      <4>1. \A g \in Calls : ~(op[g] = "publish" /\ tgt[g] = t)
        BY <1>0, <1>00, <2>1, <3>1 DEF Kubelet, PodOps
      <4> QED BY <1>0, <2>1, <3>1, <4>1 DEF Binds
    <3>2. CASE ~(o = "unstage" /\ VolumeOf[t] = v)
      BY <1>0, <1>01, <2>1, <2>2, <3>2 DEF Leftovers
    <3> QED BY <3>1, <3>2
  <2>3. ASSUME NEW u \in Volumes, dev'[u] = "none", u \notin store'
        PROVE  \/ StageClean(u)'
               \/ \E g \in waiting' : op'[g] = "stage" /\ HoldsStage(g)' /\ vol'[g] = u
    <3>1. dev[u] = "none" /\ u \notin store
      BY <2>1, <2>3
    <3>2. CASE StageClean(u)
      BY <2>1, <3>2 DEF StageClean
    <3>3. CASE \E g \in waiting : op[g] = "stage" /\ HoldsStage(g) /\ vol[g] = u
      BY <1>0, <2>1, <3>3 DEF HoldsStage, StageWork, TypeOK
    <3> QED BY <1>0, <3>1, <3>2, <3>3 DEF Leftovers
  <2>4. \A g \in Calls : op'[g] = "unstage" /\ pc'[g] = "staged" => StageClean(vol[g]) /\ g # h
    BY <1>0, <2>1 DEF Leftovers
  <2>5. boot' \subseteq store'
    BY <1>0, <2>1 DEF Leftovers
  <2> QED BY <2>1, <2>2, <2>3, <2>4, <2>5 DEF Leftovers, StageClean
<1>2. ASSUME NEW h \in Calls, NEW t \in Targets, NEW o \in PodOps, BeginPod(h, t, o)
      PROVE Leftovers'
  <2>1. /\ \A g \in Calls \ {h} : pc'[g] = pc[g] /\ op'[g] = op[g] /\ vol'[g] = vol[g]
        /\ pc[h] = "idle" /\ pc'[h] = "plock" /\ waiting' = waiting \cup {h}
        /\ UNCHANGED <<mctx, cached, store, stage, bind, boot, dev>>
    BY <1>0, <1>2 DEF BeginPod, Start, TypeOK
  <2> QED BY <1>0, <2>1 DEF Leftovers, StageClean, HoldsStage, StageWork, TypeOK
<1>3. ASSUME NEW h \in Calls, Abandon(h) PROVE Leftovers'
  <2>1. Answer(h, FALSE) /\ UNCHANGED <<pc, op, vol, mctx, cached, store, stage, bind, boot>> /\ h \in waiting
    BY <1>3 DEF Abandon
  <2>2. /\ waiting' = waiting \ {h}
        /\ \A v \in Volumes : v # vol[h] \/ op[h] # "stage" => dev'[v] = dev[v]
        /\ \A v \in Volumes : v = vol[h] /\ op[h] = "stage" => dev'[v] = "unknown"
    BY <1>0, <2>1, RefusalSays
  <2>3. \A v \in Volumes : dev'[v] \in {"none", "tearing"} => dev'[v] = dev[v]
    BY <2>2
  <2> QED BY <1>0, <1>01, <2>1, <2>2, <2>3 DEF Leftovers, StageClean, HoldsStage
<1>4. ASSUME NEW h \in Calls, KeyStep(h) PROVE Leftovers'
  <2>1. CASE Moves(h)
    <3>1. /\ \A g \in Calls \ {h} : pc'[g] = pc[g]
          /\ UNCHANGED <<op, vol, waiting, mctx, cached, store, stage, bind, boot, dev>>
          /\ pc'[h] # "staged"
          /\ ~(op[h] = "stage" /\ HoldsStage(h))
      BY <2>1 DEF Moves, HoldsStage, StageWork, PodOps
    <3> QED BY <1>0, <3>1 DEF Leftovers, StageClean, HoldsStage, TypeOK
  <2>2. ASSUME NEW ok \in BOOLEAN, Ends(h, ok) PROVE Leftovers'
    <3>1. EndCall(h) /\ Answer(h, ok) /\ UNCHANGED <<mctx, cached, store, stage, bind, boot>>
      BY <2>2 DEF Ends
    <3>2. /\ waiting' = waiting \ {h} /\ op'[h] = "stage"
          /\ \A g \in Calls \ {h} : pc'[g] = pc[g] /\ op'[g] = op[g] /\ vol'[g] = vol[g]
      BY <1>0, <3>1, EndSays, AnswerSays
    <3>3. /\ \A v \in Volumes : dev'[v] \in {"none", "tearing"} =>
               \/ dev'[v] = dev[v]
               \/ dev'[v] = "none" /\ v = vol[h] /\ h \in waiting /\ op[h] = "unstage" /\ ok
          /\ \A v \in Volumes : h \in waiting /\ op[h] = "stage" /\ v = vol[h] =>
               dev'[v] \in {"staged", "unknown"}
      <4>1. op[h] = "stage" \/ op[h] = "unstage" \/ op[h] \in PodOps
        BY <1>0 DEF TypeOK, DeviceOps
      <4>2. \A v \in Volumes : h \in waiting /\ op[h] = "stage" /\ v = vol[h] =>
              dev'[v] = IF ok THEN "staged" ELSE "unknown"
        BY <1>0, <3>1, AnswerSays
      <4>3. /\ h \notin waiting => dev' = dev
            /\ op[h] \in PodOps => dev' = dev
            /\ \A v \in Volumes : v # vol[h] => dev'[v] = dev[v]
            /\ op[h] = "unstage" /\ ~ok => dev' = dev
            /\ \A v \in Volumes : h \in waiting /\ op[h] = "unstage" /\ ok /\ v = vol[h] => dev'[v] = "none"
        BY <1>0, <3>1, AnswerSays
      <4> QED BY <4>1, <4>2, <4>3
    <3>4. ASSUME NEW v \in Volumes, v = vol[h], h \in waiting, op[h] = "unstage", ok
          PROVE  StageClean(v) /\ dev[v] = "tearing"
      <4>1. pc[h] = "staged"
        BY <2>2, <3>4 DEF Ends, PodOps
      <4> QED BY <1>0, <3>4, <4>1 DEF Leftovers, Devices, TypeOK
    <3>5. ASSUME NEW t \in Targets, dev'[VolumeOf[t]] \in {"none", "tearing"} PROVE bind'[t] \in Unbound
      BY <1>0, <1>01, <3>1, <3>3, <3>4, <3>5 DEF Leftovers
    <3>6. ASSUME NEW v \in Volumes, dev'[v] = "none", v \notin store'
          PROVE  \/ StageClean(v)'
                 \/ \E g \in waiting' : op'[g] = "stage" /\ HoldsStage(g)' /\ vol'[g] = v
      <4>1. StageClean(v)' <=> StageClean(v)
        BY <3>1 DEF StageClean
      <4>2. CASE v = vol[h] /\ h \in waiting /\ op[h] = "unstage" /\ ok
        BY <3>4, <4>1, <4>2
      <4>3. CASE ~(v = vol[h] /\ h \in waiting /\ op[h] = "unstage" /\ ok)
        <5>1. dev[v] = "none" /\ v \notin store
          BY <3>1, <3>3, <3>6, <4>3
        <5>2. ASSUME NEW g \in waiting, op[g] = "stage", HoldsStage(g), vol[g] = v
              PROVE  g \in waiting' /\ op'[g] = "stage" /\ HoldsStage(g)' /\ vol'[g] = v
          BY <1>0, <3>2, <3>3, <3>6, <5>2 DEF HoldsStage, TypeOK
        <5>3. CASE StageClean(v)
          BY <4>1, <5>3
        <5>4. CASE ~StageClean(v)
          <6>1. PICK g \in waiting : op[g] = "stage" /\ HoldsStage(g) /\ vol[g] = v
            BY <1>0, <5>1, <5>4 DEF Leftovers
          <6> QED BY <5>2, <6>1
        <5> QED BY <5>3, <5>4
      <4> QED BY <4>2, <4>3
    <3>7. \A g \in Calls : op'[g] = "unstage" /\ pc'[g] = "staged" => StageClean(vol[g]) /\ g # h
      BY <1>0, <3>2 DEF Leftovers
    <3>8. boot' \subseteq store'
      BY <1>0, <3>1 DEF Leftovers
    <3> QED BY <3>1, <3>2, <3>5, <3>6, <3>7, <3>8 DEF Leftovers, StageClean
  <2> QED BY <1>0, <1>4, <2>1, <2>2, KeyStepKinds
<1>5. ASSUME NEW h \in Calls, Working(h) PROVE Leftovers'
  <2>1. Inside(h)
    BY <1>0, <1>5, WorkIsInside
  <2>2. /\ \A g \in Calls \ {h} : pc'[g] = pc[g]
        /\ UNCHANGED <<op, tgt, vol, waiting, dev, boot>>
        /\ \A g \in Calls : HoldsStage(g)' <=> HoldsStage(g)
    BY <2>1 DEF Inside, HoldsStage
  <2>3. ASSUME NEW v \in Volumes, v # vol[h] \/ ~HoldsStage(h), StageClean(v) PROVE StageClean(v)'
    BY <1>0, <1>5, <2>3, WorkIsLocal, WorkCaches DEF StageClean
  <2>4. StagePaths
    BY DEF Safe
  <2>5. /\ \A v \in Volumes : v \in store /\ v \notin store' => v = vol[h] /\ op[h] = "unstage"
        /\ op[h] = "unstage" /\ pc'[h] = "staged" => StageClean(vol[h])'
    BY <1>0, <1>5, <2>4, WorkForgets
  <2>6. boot' \subseteq store'
    <3>1. pc[h] # "idle"
      BY <2>1 DEF Inside, StageWork, TargetWork
    <3>2. boot = {}
      BY <3>1 DEF Control, BootAlone
    <3> QED BY <2>2, <3>2
  <2>7. ASSUME NEW t \in Targets, dev'[VolumeOf[t]] \in {"none", "tearing"} PROVE bind'[t] \in Unbound
    <3>1. bind[t] \in Unbound
      BY <1>0, <2>2, <2>7 DEF Leftovers
    <3>2. ~(op[h] = "publish" /\ t = tgt[h])
      BY <1>0, <1>00, <2>2, <2>7 DEF Devices, PodOps
    <3>3. CASE op[h] = "unpublish"
      BY <1>0, <1>5, <3>1, <3>3, WorkBinds
    <3>4. CASE op[h] # "unpublish"
      <4>1. t # tgt[h] \/ op[h] \notin PodOps
        BY <3>2, <3>4 DEF PodOps
      <4> QED BY <1>0, <1>5, <3>1, <4>1, WorkBinds
    <3> QED BY <3>3, <3>4
  <2>8. ASSUME NEW g \in Calls, op'[g] = "unstage", pc'[g] = "staged" PROVE StageClean(vol[g])'
    <3>1. CASE g = h
      BY <2>2, <2>5, <2>8, <3>1
    <3>2. CASE g # h
      <4>1. StageClean(vol[g]) /\ HoldsStage(g) /\ vol[g] \in Volumes
        BY <1>0, <1>00, <2>2, <2>8, <3>2 DEF Leftovers, HoldsStage, StageWork
      <4>2. vol[g] # vol[h] \/ ~HoldsStage(h)
        BY <3>2, <4>1, AloneOnVolume
      <4>3. PICK v \in Volumes : v = vol[g] /\ StageClean(v)'
        BY <2>3, <4>1, <4>2
      <4> QED BY <2>2, <4>3 DEF StageClean
    <3> QED BY <3>1, <3>2
  <2>9. ASSUME NEW v \in Volumes, dev[v] = "none", v \notin store',
               ~\E g \in waiting : op[g] = "stage" /\ HoldsStage(g) /\ vol[g] = v
        PROVE  StageClean(v)'
    <3>1. v \notin store
      BY <1>0, <2>5, <2>9 DEF Devices
    <3>2. StageClean(v)
      BY <1>0, <2>9, <3>1 DEF Leftovers
    <3>3. v # vol[h] \/ ~HoldsStage(h)
      <4> SUFFICES ASSUME v = vol[h], HoldsStage(h) PROVE FALSE
        OBVIOUS
      <4>1. pc[h] # "idle" /\ op[h] # "unpublish"
        BY <1>0 DEF HoldsStage, StageWork, Positions
      <4>2. op[h] \in {"stage", "unstage", "publish"}
        BY <1>0, <4>1 DEF TypeOK, DeviceOps, PodOps
      <4>3. CASE op[h] = "stage"
        <5>1. h \notin waiting
          BY <2>9, <4>3
        <5> QED BY <1>0, <2>9, <4>1, <4>3, <5>1 DEF Devices
      <4>4. CASE op[h] # "stage"
        BY <1>0, <2>9, <4>2, <4>4 DEF Devices
      <4> QED BY <4>3, <4>4
    <3> QED BY <2>3, <3>2, <3>3
  <2>10. ASSUME NEW v \in Volumes, dev'[v] = "none", v \notin store'
         PROVE  \/ StageClean(v)'
                \/ \E g \in waiting' : op'[g] = "stage" /\ HoldsStage(g)' /\ vol'[g] = v
    <3>1. ASSUME NEW g \in waiting, op[g] = "stage", HoldsStage(g), vol[g] = v
          PROVE  g \in waiting' /\ op'[g] = "stage" /\ HoldsStage(g)' /\ vol'[g] = v
      BY <1>0, <2>2, <3>1 DEF TypeOK
    <3>2. CASE \E g \in waiting : op[g] = "stage" /\ HoldsStage(g) /\ vol[g] = v
      BY <3>1, <3>2
    <3> QED BY <2>2, <2>9, <2>10, <3>2
  <2> QED BY <2>2, <2>6, <2>7, <2>8, <2>10 DEF Leftovers, StageClean
<1>6. ASSUME NEW v \in Volumes, LingerEnds(v) PROVE Leftovers'
  <2>1. \A t \in Targets : bind'[t] \in Unbound <=> bind[t] \in Unbound
    BY <1>0, <1>6, UnbackedIsBound DEF LingerEnds
  <2>2. /\ UNCHANGED <<pc, op, vol, waiting, mctx, cached, store, dev, boot>>
        /\ \A u \in Volumes : stage[u] \notin Mounted => stage'[u] \notin Mounted
    BY <1>0, <1>6 DEF LingerEnds, TypeOK, Mounted, Served
  <2>3. \A u \in Volumes : StageClean(u) => StageClean(u)'
    BY <2>2 DEF StageClean
  <2> QED BY <1>0, <1>00, <2>1, <2>2, <2>3 DEF Leftovers, HoldsStage, StageClean
<1>7. CASE Crash
  <2>1. /\ \A h \in Calls : op'[h] = "stage"
        /\ \A v \in Volumes : dev'[v] \in {"none", "tearing"} =>
             dev'[v] = dev[v] /\ ~\E h \in waiting : vol[h] = v /\ op[h] = "stage"
        /\ \A t \in Targets : bind[t] \in Unbound => bind'[t] \in Unbound
        /\ \A v \in Volumes : stage[v] \notin Mounted => stage'[v] \notin Mounted
        /\ mctx' = {} /\ cached' = {} /\ store' = store /\ boot' \subseteq store
    BY <1>7 DEF Crash, Unbound, Mounted, Served
  <2>2. \A v \in Volumes : StageClean(v) => StageClean(v)'
    BY <2>1 DEF StageClean
  <2> QED BY <1>0, <1>01, <2>1, <2>2 DEF Leftovers
<1>8. CASE BootStep
  <2>1. CASE StartServing
    BY <1>0, <2>1 DEF StartServing, Leftovers, StageClean, HoldsStage
  <2>2. ASSUME NEW v \in Volumes, RemountSucceeds(v) \/ RemountFails(v) PROVE Leftovers'
    <3>1. /\ v \in boot /\ boot' = boot \ {v}
          /\ UNCHANGED <<pc, op, vol, waiting, store, bind, dev>>
          /\ \A u \in Volumes \ {v} : stage'[u] = stage[u]
          /\ mctx' \subseteq mctx \cup {v} /\ cached' \subseteq cached \cup {v}
      BY <1>0, <2>2 DEF RemountSucceeds, RemountFails, TypeOK
    <3>2. v \in store /\ \A h \in Calls : pc[h] = "idle"
      BY <1>0, <3>1 DEF Leftovers, Control, BootAlone
    <3>3. \A u \in Volumes \ {v} : StageClean(u) => StageClean(u)'
      BY <3>1 DEF StageClean
    <3>4. \A u \in Volumes : dev'[u] = "none" /\ u \notin store' => StageClean(u)'
      BY <1>0, <3>1, <3>2, <3>3 DEF Leftovers, HoldsStage, StageWork, TypeOK
    <3> QED BY <1>0, <3>1, <3>2, <3>4 DEF Leftovers
  <2> QED BY <1>8, <2>1, <2>2 DEF BootStep
<1>9. CASE UNCHANGED vars
  BY <1>0, <1>9 DEF vars, Leftovers, StageClean, HoldsStage
<1> QED
  BY <1>1, <1>2, <1>3, <1>4, <1>5, <1>6, <1>7, <1>8, <1>9 DEF Next, CallStep, Working

-----------------------------------------------------------------------------
LEMMA ToldInit == Init => Told
<1> SUFFICES ASSUME Init PROVE Told
  OBVIOUS
<1>1. /\ \A h \in Calls : pc[h] = "idle" /\ op[h] = "stage"
      /\ waiting = {} /\ boot = {} /\ mctx = {} /\ cached = {}
      /\ \A t \in Targets : bind[t] = "absent"
      /\ \A v \in Volumes : stage[v] = "absent"
  BY DEF Init
<1>2. Requests
  BY <1>1 DEF Requests, Positions, Tearing
<1>3. Binds /\ Devices
  BY <1>1 DEF Init, Binds, Devices, Unbound
<1>4. Leftovers
  BY <1>1 DEF Leftovers, StageClean, Unbound, Mounted, Served
<1> QED BY <1>2, <1>3, <1>4 DEF Told

LEMMA ToldHolds == Spec => [](Control /\ Told)
<1>1. Control /\ Safe /\ Told /\ [Next]_vars => Told'
  BY PositionsStep, TearingStep, BindsStep, DevicesStep, LeftoversStep DEF Told, Requests
<1> QED BY <1>1, ControlInit, ControlStep, SafeInit, SafeStep, ToldInit, PTL DEF Spec

(* Nothing is left of a volume that kubelet was told is unstaged.          *)
THEOREM UnstageCleans == Spec => []UnstagedIsClean
<1>1. Control /\ Told => UnstagedIsClean
  <2> SUFFICES ASSUME Control, Told, NEW v \in Volumes,
                      dev[v] = "none", QuietVolume(v), v \notin store
               PROVE  /\ stage[v] \notin Mounted
                      /\ v \notin mctx \cup cached
                      /\ \A t \in Targets : VolumeOf[t] = v => bind[t] \in {"absent", "dir"}
    BY DEF UnstagedIsClean
  <2>1. ~\E h \in waiting : vol[h] = v
    BY DEF QuietVolume, Control, TypeOK
  <2> QED BY <2>1 DEF Told, Leftovers, StageClean, Unbound
<1> QED BY <1>1, ToldHolds, PTL

(* A target that kubelet was told is published is bound.                   *)
THEOREM PublishBinds == Spec => []PublishedIsBound
<1>1. Control /\ Told => PublishedIsBound
  BY DEF Control, TypeOK, Told, Binds, Unbound, PublishedIsBound, QuietTarget
<1> QED BY <1>1, ToldHolds, PTL

-----------------------------------------------------------------------------
(* The contract with kubelet. The mapped variables that are not variables  *)
(* of StagedNode:                                                          *)
Path  == [v \in Volumes |-> Seen(stage[v])]
Bound == {t \in Targets : bind[t] \notin {"absent", "dir"}}

(* Where a staging is about to be saved or reported, its path can be read. *)
Reported ==
  \A h \in Calls : op[h] # "unstage" /\ pc[h] \in {"register", "save", "staged"} =>
    stage[vol[h]] \in Served \cup {"dir"}

LEMMA ReportedOfWorker ==
  ASSUME TypeOK, Positions, Reported, NEW h \in Calls, Working(h),
         op[h] # "unstage", pc'[h] \in {"register", "save", "staged"}
  PROVE  stage'[vol[h]] \in Served \cup {"dir"}
<1> USE DEF Goto, TypeOK, Served, StageWork, TargetWork
<1>1. CASE StageStep(h)
  <2>1. CASE AlreadyStaged(h)
    BY <2>1 DEF AlreadyStaged, LooksHealthy
  <2>2. CASE NotStaged(h)
    BY <2>2 DEF NotStaged, CleanStaging, TearDown
  <2>3. CASE AdoptMount(h)
    BY <2>3 DEF AdoptMount
  <2>4. CASE PrepareStaging(h) \/ PrepareFails(h) \/ LoadConfig(h)
    BY <2>4 DEF PrepareStaging, PrepareFails, LoadConfig
  <2>5. CASE Register(h) \/ SaveState(h)
    BY <2>5 DEF Register, SaveState, Reported
  <2> QED BY <1>1, <2>1, <2>2, <2>3, <2>4, <2>5 DEF StageStep
<1>2. CASE MountStep(h)
  BY <1>2 DEF MountStep, MountStaging, MountFails
<1>3. CASE PublishStep(h)
  <2>1. CASE RebuildCache(h)
    BY <2>1 DEF RebuildCache, LooksHealthy
  <2>2. CASE Restage(h)
    BY <2>2 DEF Restage, CleanStaging, TearDown
  <2>3. CASE ~(RebuildCache(h) \/ Restage(h))
    BY <1>3, <2>3 DEF PublishStep, LookAtStaging, ReadCache, DropCache, AlreadyPublished, PrepareTarget, BindPublish
  <2> QED BY <2>1, <2>2, <2>3
<1>4. CASE TakeDownStep(h)
  <2>1. pc[h] # "forget"
    BY DEF Positions, DeviceOps, PodOps
  <2> QED BY <1>4, <2>1 DEF TakeDownStep, Unbind, Unstage, TearDown, Forget
<1> QED BY <1>1, <1>2, <1>3, <1>4 DEF Working

LEMMA ReportedStep == Control /\ Positions /\ Reported /\ [Next]_vars => Reported'
<1> SUFFICES ASSUME Control, Positions, Reported, [Next]_vars PROVE Reported'
  OBVIOUS
<1>0. TypeOK
  BY DEF Control
<1>1. ASSUME NEW h \in Calls, Working(h) PROVE Reported'
  <2>1. /\ Inside(h)
        /\ \A g \in Calls \ {h} : pc'[g] = pc[g]
        /\ UNCHANGED <<op, vol>>
    BY <1>0, <1>1, WorkIsInside DEF Inside
  <2>2. ASSUME NEW g \in Calls, op[g] # "unstage", pc'[g] \in {"register", "save", "staged"}
        PROVE  stage'[vol[g]] \in Served \cup {"dir"}
    <3>1. CASE g = h
      BY <1>0, <1>1, <2>2, <3>1, ReportedOfWorker
    <3>2. CASE g # h
      <4>1. HoldsStage(g) /\ vol[g] \in Volumes /\ stage[vol[g]] \in Served \cup {"dir"}
        BY <1>0, <2>1, <2>2, <3>2 DEF HoldsStage, StageWork, TypeOK, Reported
      <4>2. vol[g] # vol[h] \/ ~HoldsStage(h)
        BY <3>2, <4>1, AloneOnVolume
      <4> QED BY <1>0, <1>1, <4>1, <4>2, WorkIsLocal
    <3> QED BY <3>1, <3>2
  <2> QED BY <2>1, <2>2 DEF Reported
<1>2. ASSUME NEW h \in Calls, NEW v \in Volumes, NEW o \in DeviceOps, BeginDevice(h, v, o)
      PROVE Reported'
  BY <1>0, <1>2 DEF BeginDevice, Start, Reported, TypeOK
<1>3. ASSUME NEW h \in Calls, NEW t \in Targets, NEW o \in PodOps, BeginPod(h, t, o)
      PROVE Reported'
  BY <1>0, <1>3 DEF BeginPod, Start, Reported, TypeOK
<1>4. ASSUME NEW h \in Calls, Abandon(h) PROVE Reported'
  BY <1>4 DEF Abandon, Reported
<1>5. ASSUME NEW h \in Calls, KeyStep(h) PROVE Reported'
  <2>1. CASE Moves(h)
    BY <1>0, <2>1 DEF Moves, Reported, TypeOK
  <2>2. ASSUME NEW ok \in BOOLEAN, Ends(h, ok) PROVE Reported'
    <3>1. EndCall(h) /\ stage' = stage
      BY <2>2 DEF Ends
    <3> QED BY <1>0, <3>1, EndSays DEF Reported
  <2> QED BY <1>0, <1>5, <2>1, <2>2, KeyStepKinds
<1>6. ASSUME NEW v \in Volumes, LingerEnds(v) PROVE Reported'
  <2>1. \A u \in Volumes : stage'[u] = stage[u] \/ stage'[u] = "dir"
    BY <1>0, <1>6 DEF LingerEnds, TypeOK
  <2>2. \A h \in Calls : pc[h] \in {"register", "save", "staged"} => vol[h] \in Volumes
    BY <1>0 DEF TypeOK
  <2> QED BY <1>6, <2>1, <2>2 DEF LingerEnds, Reported
<1>7. CASE Crash
  BY <1>7 DEF Crash, Reported
<1>8. CASE BootStep
  <2>1. UNCHANGED <<pc, op, vol>> /\ \A h \in Calls : pc[h] = "idle"
    BY <1>8 DEF BootStep, StartServing, RemountSucceeds, RemountFails, Control, BootAlone
  <2> QED BY <2>1 DEF Reported
<1>9. CASE UNCHANGED vars
  BY <1>9 DEF vars, Reported
<1> QED
  BY <1>1, <1>2, <1>3, <1>4, <1>5, <1>6, <1>7, <1>8, <1>9 DEF Next, CallStep, Working

-----------------------------------------------------------------------------
(* What a handler's step changes of what the contract sees: a Secret, what *)
(* is bound at its target, or what is at its staging path.                 *)
Unmapped(h) ==
  /\ Bound' = Bound /\ store' = store
  /\ stage'[vol[h]] = "corrupt" => stage[vol[h]] = "corrupt"

Rebinds(h) ==
  /\ \/ pc[h] \in {"target", "unbind"} /\ Bound' = Bound \ {tgt[h]}
     \/ pc[h] = "bind" /\ stage[vol[h]] # "absent" /\ Bound' = Bound \cup {tgt[h]}
  /\ UNCHANGED <<stage, store>>

Saves(h) ==
  /\ \/ pc[h] = "save" /\ store' = store \cup {vol[h]}
     \/ pc[h] = "forget" /\ store' = store \ {vol[h]}
  /\ UNCHANGED <<stage, bind>>

LEMMA WorkKinds ==
  ASSUME TypeOK, NEW h \in Calls, Working(h)
  PROVE  Unmapped(h) \/ Rebinds(h) \/ Saves(h)
<1>0. /\ vol[h] \in Volumes
      /\ op[h] \in PodOps => tgt[h] \in Targets
      /\ pc[h] \in TargetWork => op[h] \in PodOps
      /\ {t \in Targets : Unbacked(vol[h])[t] \notin {"absent", "dir"}} = Bound
  <2>1. vol[h] \in Volumes
    BY WorkIsInside DEF Inside, TypeOK, StageWork, TargetWork
  <2>2. \A t \in Targets : Unbacked(vol[h])[t] \in Unbound <=> bind[t] \in Unbound
    BY <2>1, UnbackedIsBound
  <2>3. pc[h] # "idle"
    BY WorkIsInside DEF Inside, StageWork, TargetWork
  <2> QED BY <2>1, <2>2, <2>3 DEF TypeOK, Bound, Unbound
<1>1. bind' = bind \/ bind' = Unbacked(vol[h]) => Bound' = Bound
  BY <1>0 DEF Bound
<1> USE DEF Goto, TypeOK, Served
<1>2. CASE StageStep(h)
  <2>1. CASE AlreadyStaged(h)
    BY <1>1, <2>1 DEF AlreadyStaged, Unmapped
  <2>2. CASE NotStaged(h)
    BY <1>0, <1>1, <2>2 DEF NotStaged, CleanStaging, TearDown, Unmapped
  <2>3. CASE AdoptMount(h)
    BY <1>1, <2>3 DEF AdoptMount, Unmapped
  <2>4. CASE PrepareStaging(h)
    BY <1>0, <1>1, <2>4 DEF PrepareStaging, Unmapped
  <2>5. CASE PrepareFails(h)
    BY <1>0, <1>1, <2>5 DEF PrepareFails, Unmapped
  <2>6. CASE LoadConfig(h)
    BY <1>1, <2>6 DEF LoadConfig, Unmapped
  <2>7. CASE Register(h)
    BY <1>1, <2>7 DEF Register, Unmapped
  <2>8. CASE SaveState(h)
    BY <1>1, <2>8 DEF SaveState, Unmapped, Saves
  <2> QED BY <1>2, <2>1, <2>2, <2>3, <2>4, <2>5, <2>6, <2>7, <2>8 DEF StageStep
<1>3. CASE MountStep(h)
  BY <1>0, <1>1, <1>3 DEF MountStep, MountStaging, MountFails, Unmapped
<1>4. CASE PublishStep(h)
  <2>1. CASE LookAtStaging(h) \/ ReadCache(h) \/ DropCache(h)
    BY <1>1, <2>1 DEF LookAtStaging, ReadCache, DropCache, Unmapped
  <2>2. CASE RebuildCache(h)
    BY <1>1, <2>2 DEF RebuildCache, Unmapped
  <2>3. CASE Restage(h)
    BY <1>0, <1>1, <2>3 DEF Restage, CleanStaging, TearDown, Unmapped
  <2>4. CASE AlreadyPublished(h)
    BY <1>1, <2>4 DEF AlreadyPublished, Unmapped
  <2>5. CASE PrepareTarget(h)
    <3>1. pc[h] = "target" /\ UNCHANGED <<stage, store>> /\ tgt[h] \in Targets
      BY <1>0, <2>5 DEF PrepareTarget, TargetWork
    <3>2. \/ bind' = bind
          \/ bind' = [bind EXCEPT ![tgt[h]] = "dir"]
          \/ bind' = [bind EXCEPT ![tgt[h]] = "absent"]
      BY <2>5 DEF PrepareTarget
    <3>3. bind' # bind => Bound' = Bound \ {tgt[h]}
      BY <3>1, <3>2 DEF Bound
    <3> QED BY <1>1, <3>1, <3>3 DEF Unmapped, Rebinds
  <2>6. CASE BindPublish(h)
    <3>1. pc[h] = "bind" /\ UNCHANGED <<stage, store>> /\ tgt[h] \in Targets
      BY <1>0, <2>6 DEF BindPublish, TargetWork
    <3>2. BindOf(vol[h]) \notin {"absent", "dir"}
      BY DEF BindOf
    <3>3. CASE bind' = bind
      BY <1>1, <3>1, <3>3 DEF Unmapped
    <3>4. CASE stage[vol[h]] # "absent" /\ bind' = [bind EXCEPT ![tgt[h]] = BindOf(vol[h])]
      <4>1. Bound' = Bound \cup {tgt[h]}
        BY <3>1, <3>2, <3>4 DEF Bound
      <4> QED BY <3>1, <3>4, <4>1 DEF Rebinds
    <3> QED BY <2>6, <3>3, <3>4 DEF BindPublish
  <2> QED BY <1>4, <2>1, <2>2, <2>3, <2>4, <2>5, <2>6 DEF PublishStep
<1>5. CASE TakeDownStep(h)
  <2>1. CASE Unbind(h)
    <3>1. pc[h] = "unbind" /\ UNCHANGED <<stage, store>> /\ tgt[h] \in Targets
      BY <1>0, <2>1 DEF Unbind, TargetWork
    <3>2. bind' = [bind EXCEPT ![tgt[h]] = "absent"] => Bound' = Bound \ {tgt[h]}
      BY <3>1 DEF Bound
    <3> QED BY <1>1, <2>1, <3>1, <3>2 DEF Unbind, Unmapped, Rebinds
  <2>2. CASE Unstage(h)
    <3>1. UNCHANGED <<mctx, cached, store>>
      BY <2>2 DEF Unstage
    <3>2. PICK context \in BOOLEAN : TearDown(h, context, "unmount", "forget", "absent")
      BY <2>2 DEF Unstage
    <3> QED BY <1>0, <1>1, <3>1, <3>2 DEF TearDown, Unmapped
  <2>3. CASE Forget(h)
    BY <1>1, <2>3 DEF Forget, Unmapped, Saves
  <2> QED BY <1>5, <2>1, <2>2, <2>3 DEF TakeDownStep
<1> QED BY <1>2, <1>3, <1>4, <1>5 DEF Working

-----------------------------------------------------------------------------
Kept == Control /\ StagePaths /\ Told /\ Reported

LEMMA ContractInit == Init => Contract!Init
<1>1. Init => Path = [v \in Volumes |-> "none"] /\ Bound = {}
  BY DEF Init, Path, Bound, Seen, Served
<1> QED BY <1>1 DEF Init, Contract!Init, Path, Bound

(* A change at one staging path, seen through the mapping.                 *)
LEMMA PathAt ==
  ASSUME TypeOK, NEW v \in Volumes, NEW s, stage' = [stage EXCEPT ![v] = s]
  PROVE  Path' = [Path EXCEPT ![v] = Seen(s)]
<1>1. \A u \in Volumes : stage'[u] = IF u = v THEN s ELSE stage[u]
  BY DEF TypeOK
<1>2. \A u \in Volumes : Seen(stage'[u]) = IF u = v THEN Seen(s) ELSE Seen(stage[u])
  BY <1>1
<1> QED BY <1>2 DEF Path

(* A handler between its keys and its end.                                 *)
LEMMA WorkKeepsContract ==
  ASSUME Kept, TypeOK', NEW h \in Calls, Working(h)
  PROVE  [Contract!Next]_(Contract!vars)
<1>0. TypeOK /\ Positions /\ Devices
  BY DEF Kept, Control, Told, Requests
<1>1. /\ UNCHANGED <<dev, acked, stageKeys, pubKeys, serving>>
      /\ pc[h] \in StageWork \cup TargetWork
      /\ vol[h] \in Volumes
  BY <1>0, WorkIsInside DEF Inside, TypeOK, StageWork, TargetWork
<1>2. HoldsStage(h) => vol[h] \in stageKeys
  BY DEF Kept, Control, StageOwned
<1>3. pc[h] \in TargetWork => /\ op[h] \in PodOps /\ tgt[h] \in Targets /\ VolumeOf[tgt[h]] = vol[h]
                              /\ tgt[h] \in pubKeys
  BY <1>0 DEF Kept, Control, TargetOwned, HoldsTarget, TypeOK, TargetWork
<1>4. CASE Unmapped(h)
  <2>1. CASE HoldsStage(h)
    <3>1. \A v \in Volumes : v # vol[h] => stage'[v] = stage[v]
      BY <1>0, <2>1, WorkIsLocal
    <3>2. CASE stage'[vol[h]] = "corrupt"
      <4>1. Path' = Path
        BY <1>4, <3>1, <3>2 DEF Unmapped, Path
      <4> QED BY <1>1, <1>4, <4>1 DEF Unmapped, Contract!vars, Path, Bound
    <3>3. CASE stage'[vol[h]] # "corrupt"
      <4>1. Path' = [Path EXCEPT ![vol[h]] = Seen(stage'[vol[h]])]
        BY <1>1, <3>1 DEF Path
      <4>2. Seen(stage'[vol[h]]) \in {"none", "dir", "mount"}
        BY <3>3 DEF Seen
      <4>3. Contract!WorkOnPath(vol[h])
        BY <1>1, <1>2, <1>4, <2>1, <4>1, <4>2
           DEF Unmapped, Contract!WorkOnPath, Contract!Readable, Path, Bound
      <4> QED BY <1>1, <4>3 DEF Contract!Next, Contract!OnVolume
    <3> QED BY <3>2, <3>3
  <2>2. CASE ~HoldsStage(h)
    <3>1. Path' = Path
      BY <1>0, <2>2, WorkIsLocal DEF Path
    <3> QED BY <1>1, <1>4, <3>1 DEF Unmapped, Contract!vars, Path, Bound
  <2> QED BY <2>1, <2>2
<1>5. CASE Rebinds(h)
  <2>1. pc[h] \in {"target", "bind", "unbind"} /\ Path' = Path /\ store' = store
    BY <1>5 DEF Rebinds, Path
  <2>2. pc[h] \in TargetWork
    BY <2>1 DEF TargetWork
  <2>3. PICK t \in Targets : t = tgt[h]
    BY <1>3, <2>2
  <2>4. CASE Bound' = Bound \ {tgt[h]}
    <3>1. Contract!Unbind(t)
      BY <1>1, <1>3, <2>1, <2>2, <2>3, <2>4 DEF Contract!Unbind, Path, Bound
    <3> QED BY <3>1 DEF Contract!Next, Contract!OnTarget
  <2>5. CASE pc[h] = "bind" /\ stage[vol[h]] # "absent" /\ Bound' = Bound \cup {tgt[h]}
    <3>1. op[h] = "publish"
      BY <1>0, <1>3, <2>2, <2>5 DEF Positions, PodOps
    <3>2. dev[VolumeOf[tgt[h]]] \in {"staged", "unknown"}
      BY <1>0, <1>3, <2>2, <3>1 DEF Devices
    <3>3. Path[VolumeOf[tgt[h]]] # "none"
      BY <1>1, <1>3, <2>2, <2>5 DEF Path, Seen
    <3>4. Contract!Bind(t)
      BY <1>1, <1>3, <2>1, <2>2, <2>3, <2>5, <3>2, <3>3 DEF Contract!Bind, Path, Bound
    <3> QED BY <3>4 DEF Contract!Next, Contract!OnTarget
  <2> QED BY <1>5, <2>4, <2>5 DEF Rebinds
<1>6. CASE Saves(h)
  <2>1. Path' = Path /\ Bound' = Bound /\ HoldsStage(h)
    BY <1>6 DEF Saves, Path, Bound, HoldsStage, StageWork
  <2>2. CASE pc[h] = "save" /\ store' = store \cup {vol[h]}
    <3>1. stage[vol[h]] \in Served \cup {"dir"}
      BY <1>0, <2>2 DEF Kept, Reported, Positions
    <3>2. Path[vol[h]] \in {"dir", "mount"}
      BY <1>1, <3>1 DEF Path, Seen, Served
    <3>3. Contract!Remember(vol[h])
      BY <1>1, <1>2, <2>1, <2>2, <3>2 DEF Contract!Remember, Contract!Readable, Path, Bound
    <3> QED BY <1>1, <3>3 DEF Contract!Next, Contract!OnVolume
  <2>3. CASE pc[h] = "forget" /\ store' = store \ {vol[h]}
    <3>1. Path[vol[h]] = "none"
      BY <1>1, <2>3 DEF Kept, StagePaths, Path, Seen, Served
    <3>2. Contract!Forget(vol[h])
      BY <1>1, <1>2, <2>1, <2>3, <3>1 DEF Contract!Forget, Path, Bound
    <3> QED BY <1>1, <3>2 DEF Contract!Next, Contract!OnVolume
  <2> QED BY <1>6, <2>2, <2>3 DEF Saves
<1> QED BY <1>0, <1>4, <1>5, <1>6, WorkKinds

(* What kubelet learns when it gives up on a call, or is refused.          *)
LEMMA RefusalKeepsContract ==
  ASSUME Kept, NEW h \in Calls, Answer(h, FALSE),
         UNCHANGED <<stageKeys, pubKeys, store, stage, bind, serving>>
  PROVE  [Contract!Next]_(Contract!vars)
<1>1. Path' = Path /\ Bound' = Bound
  BY DEF Path, Bound
<1>2. h \in waiting => /\ vol[h] \in Volumes
                       /\ op[h] \in PodOps => tgt[h] \in Targets
  BY DEF Kept, Control, Kubelet, TypeOK
<1>3. CASE op[h] = "publish" /\ h \in waiting
  <2>1. dev' = dev /\ acked' = [acked EXCEPT ![tgt[h]] = "unknown"] /\ tgt[h] \in Targets
    BY <1>2, <1>3 DEF Answer, PodOps
  <2>2. Contract!LearnTarget(tgt[h])
    BY <1>1, <2>1 DEF Contract!LearnTarget, Path, Bound
  <2> QED BY <2>1, <2>2 DEF Contract!Next, Contract!OnTarget
<1>4. CASE op[h] = "stage" /\ h \in waiting
  <2>1. acked' = acked /\ dev' = [dev EXCEPT ![vol[h]] = "unknown"] /\ vol[h] \in Volumes
    BY <1>2, <1>4 DEF Answer
  <2>2. Contract!LearnVolume(vol[h])
    BY <1>1, <2>1 DEF Contract!LearnVolume, Path, Bound
  <2> QED BY <2>1, <2>2 DEF Contract!Next, Contract!OnVolume
<1>5. CASE h \notin waiting \/ op[h] \notin {"publish", "stage"}
  <2>1. acked' = acked /\ dev' = dev
    BY <1>5 DEF Answer
  <2> QED BY <1>1, <2>1 DEF Contract!vars, Path, Bound
<1> QED BY <1>3, <1>4, <1>5

(* What an answer tells kubelet.                                           *)
LEMMA KeyStepKeepsContract ==
  ASSUME Kept, NEW h \in Calls, KeyStep(h)
  PROVE  [Contract!Next]_(Contract!vars)
<1>0. TypeOK /\ Positions /\ Binds /\ Devices /\ Leftovers
  BY DEF Kept, Control, Told, Requests
<1>1. /\ pc[h] # "idle" /\ serving /\ vol[h] \in Volumes
      /\ op[h] \in PodOps => tgt[h] \in Targets /\ VolumeOf[tgt[h]] = vol[h]
      /\ op[h] \in PodOps \/ op[h] \in {"stage", "unstage"}
  <2>1. pc[h] # "idle"
    BY DEF KeyStep, TakeTarget, TakeStage, RefuseBusy, ReleaseStage, Finish, Goto
  <2> QED BY <1>0, <2>1 DEF Kept, Control, BootAlone, TypeOK, DeviceOps
<1>2. CASE TakeTarget(h)
  <2>1. Path' = Path /\ Bound' = Bound /\ tgt[h] \in Targets
    BY <1>0, <1>1, <1>2 DEF TakeTarget, Goto, Path, Bound, TypeOK
  <2>2. Contract!TakeTarget(tgt[h])
    BY <1>1, <1>2, <2>1 DEF TakeTarget, Goto, Contract!TakeTarget, Path, Bound
  <2> QED BY <2>1, <2>2 DEF Contract!Next, Contract!OnTarget
<1>3. CASE TakeStage(h)
  <2>1. /\ vol[h] \notin stageKeys /\ stageKeys' = stageKeys \cup {vol[h]}
        /\ UNCHANGED <<pubKeys, store, stage, bind, dev, acked, serving>>
    BY <1>3 DEF TakeStage, Goto
  <2>2. Path' = Path /\ Bound' = Bound
    BY <2>1 DEF Path, Bound
  <2>3. Contract!TakeVolume(vol[h])
    BY <1>1, <2>1, <2>2 DEF Contract!TakeVolume, Path, Bound
  <2> QED BY <1>1, <2>3 DEF Contract!Next, Contract!OnVolume
<1>4. CASE RefuseBusy(h)
  <2>1. UNCHANGED <<stageKeys, pubKeys, store, stage, bind, serving>>
    <3>1. serving' = serving
      BY <1>4 DEF RefuseBusy, Goto
    <3> QED BY <1>4, <3>1 DEF RefuseBusy
  <2>2. Path' = Path /\ Bound' = Bound
    BY <2>1 DEF Path, Bound
  <2>3. CASE UNCHANGED <<dev, acked>>
    BY <2>1, <2>2, <2>3 DEF Contract!vars, Path, Bound
  <2>4. CASE Answer(h, FALSE)
    BY <2>1, <2>4, <1>1, RefusalKeepsContract
  <2> QED BY <1>4, <2>3, <2>4 DEF RefuseBusy
<1>5. CASE ReleaseStage(h)
  <2>1. /\ vol[h] \in stageKeys /\ stageKeys' = stageKeys \ {vol[h]}
        /\ UNCHANGED <<pubKeys, store, stage, bind, dev, acked, serving>>
    BY <1>5 DEF ReleaseStage, Goto, Kept, Control, StageOwned, HoldsStage, StageWork
  <2>2. Path' = Path /\ Bound' = Bound
    BY <2>1 DEF Path, Bound
  <2>3. Contract!FinishVolume(vol[h])
    BY <2>1, <2>2 DEF Contract!FinishVolume, Path, Bound
  <2> QED BY <1>1, <2>3 DEF Contract!Next, Contract!OnVolume
<1>6. CASE Finish(h)
  <2>1. /\ Answer(h, pc[h] \in {"staged", "ok"})
        /\ UNCHANGED <<store, stage, bind, serving>>
    BY <1>6 DEF Finish
  <2>2. Path' = Path /\ Bound' = Bound
    BY <2>1 DEF Path, Bound
  <2>3. CASE op[h] \in DeviceOps /\ pc[h] \in {"staged", "serr"}
    <3>1. /\ vol[h] \in stageKeys /\ stageKeys' = stageKeys \ {vol[h]} /\ pubKeys' = pubKeys
          /\ acked' = acked
      BY <1>6, <2>1, <2>3 DEF Finish, Answer, DeviceOps, Kept, Control, StageOwned, HoldsStage, StageWork
    <3>2. \/ dev' = dev
          \/ dev' = [dev EXCEPT ![vol[h]] = "unknown"]
          \/ Path[vol[h]] \in {"dir", "mount"} /\ dev' = [dev EXCEPT ![vol[h]] = "staged"]
          \/ /\ Path[vol[h]] \in {"none", "dir"} /\ \A t \in Bound : VolumeOf[t] # vol[h]
             /\ dev' = [dev EXCEPT ![vol[h]] = "none"]
      <4>1. CASE h \notin waiting \/ (op[h] = "unstage" /\ pc[h] = "serr")
        BY <2>1, <4>1 DEF Answer
      <4>2. CASE h \in waiting /\ op[h] = "stage"
        <5>1. pc[h] = "staged" => stage[vol[h]] \in Served \cup {"dir"}
          BY <4>2 DEF Kept, Reported
        <5>2. pc[h] = "staged" => Path[vol[h]] \in {"dir", "mount"}
          BY <1>1, <5>1 DEF Path, Seen, Served
        <5>3. pc[h] = "serr" => dev' = [dev EXCEPT ![vol[h]] = "unknown"]
          BY <2>1, <4>2 DEF Answer
        <5>4. pc[h] = "staged" => dev' = [dev EXCEPT ![vol[h]] = "staged"]
          BY <2>1, <4>2 DEF Answer
        <5> QED BY <2>3, <5>2, <5>3, <5>4
      <4>3. CASE h \in waiting /\ op[h] = "unstage" /\ pc[h] = "staged"
        <5>1. stage[vol[h]] \notin Mounted /\ dev[vol[h]] = "tearing"
          BY <1>0, <4>3 DEF Leftovers, StageClean, Devices
        <5>2. Path[vol[h]] \in {"none", "dir"}
          BY <1>1, <5>1 DEF Path, Seen, Mounted, Served
        <5>3. \A t \in Bound : VolumeOf[t] # vol[h]
          BY <1>0, <5>1 DEF Leftovers, Bound, Unbound
        <5>4. dev' = [dev EXCEPT ![vol[h]] = "none"]
          BY <2>1, <4>3 DEF Answer
        <5> QED BY <5>2, <5>3, <5>4
      <4> QED BY <2>3, <4>1, <4>2, <4>3 DEF DeviceOps
    <3>3. Contract!FinishVolume(vol[h])
      <4>1. (\A t \in Bound : VolumeOf[t] # vol[h]) => Contract!TargetsOf(vol[h]) \cap Bound = {}
        BY DEF Contract!TargetsOf
      <4> QED BY <2>1, <2>2, <3>1, <3>2, <4>1 DEF Contract!FinishVolume, Contract!Readable, Path, Bound
    <3> QED BY <1>1, <3>3 DEF Contract!Next, Contract!OnVolume
  <2>4. CASE pc[h] \in {"ok", "err"}
    <3>1. op[h] \in PodOps /\ tgt[h] \in Targets
      BY <1>0, <1>1, <2>4 DEF TypeOK, TargetWork
    <3>2. /\ tgt[h] \in pubKeys /\ pubKeys' = pubKeys \ {tgt[h]} /\ stageKeys' = stageKeys
          /\ dev' = dev
      BY <1>6, <2>1, <2>4, <3>1
         DEF Finish, Answer, PodOps, Kept, Control, TargetOwned, HoldsTarget, DeviceOps
    <3>3. \/ acked' = acked
          \/ acked' = [acked EXCEPT ![tgt[h]] = "unknown"]
          \/ tgt[h] \in Bound    /\ acked' = [acked EXCEPT ![tgt[h]] = "published"]
          \/ tgt[h] \notin Bound /\ acked' = [acked EXCEPT ![tgt[h]] = "none"]
      <4>1. CASE h \notin waiting \/ (op[h] = "unpublish" /\ pc[h] = "err")
        BY <2>1, <4>1 DEF Answer
      <4>2. CASE h \in waiting /\ op[h] = "publish"
        <5>1. pc[h] = "ok" => tgt[h] \in Bound
          BY <1>0, <3>1, <4>2 DEF Binds, Bound, Unbound
        <5>2. pc[h] = "err" => acked' = [acked EXCEPT ![tgt[h]] = "unknown"]
          BY <2>1, <4>2 DEF Answer
        <5>3. pc[h] = "ok" => acked' = [acked EXCEPT ![tgt[h]] = "published"]
          BY <2>1, <4>2 DEF Answer
        <5> QED BY <2>4, <5>1, <5>2, <5>3
      <4>3. CASE h \in waiting /\ op[h] = "unpublish" /\ pc[h] = "ok"
        <5>1. tgt[h] \notin Bound
          BY <1>0, <4>3 DEF Binds, Bound, Unbound
        <5>2. acked' = [acked EXCEPT ![tgt[h]] = "none"]
          BY <2>1, <4>3 DEF Answer
        <5> QED BY <5>1, <5>2
      <4> QED BY <2>4, <3>1, <4>1, <4>2, <4>3 DEF PodOps
    <3>4. Contract!FinishTarget(tgt[h])
      BY <2>1, <2>2, <3>2, <3>3 DEF Contract!FinishTarget, Path, Bound
    <3> QED BY <3>1, <3>4 DEF Contract!Next, Contract!OnTarget
  <2> QED BY <1>6, <2>3, <2>4 DEF Finish
<1> QED BY <1>2, <1>3, <1>4, <1>5, <1>6 DEF KeyStep

LEMMA ContractStep ==
  Kept /\ Kept' /\ [Next]_vars => [Contract!Next]_(Contract!vars)
<1> SUFFICES ASSUME Kept, Kept', [Next]_vars
             PROVE  [Contract!Next]_(Contract!vars)
  OBVIOUS
<1>0. TypeOK /\ TypeOK' /\ Positions /\ Leftovers /\ Leftovers'
  BY DEF Kept, Control, Told, Requests
<1>1. ASSUME NEW h \in Calls, Working(h) PROVE [Contract!Next]_(Contract!vars)
  BY <1>0, <1>1, WorkKeepsContract
<1>2. ASSUME NEW h \in Calls, NEW v \in Volumes, NEW o \in DeviceOps, BeginDevice(h, v, o)
      PROVE [Contract!Next]_(Contract!vars)
  <2>1. UNCHANGED <<acked, stageKeys, pubKeys, store, stage, bind, serving>>
    BY <1>2 DEF BeginDevice, Start
  <2>2. Path' = Path /\ Bound' = Bound
    BY <2>1 DEF Path, Bound
  <2>3. CASE o = "unstage"
    <3>1. dev' = [dev EXCEPT ![v] = "tearing"]
      BY <1>2, <2>3 DEF BeginDevice
    <3>2. \A t \in Targets : VolumeOf[t] = v => acked[t] = "none"
      BY <1>2, <2>3 DEF BeginDevice
    <3>3. \A t \in Targets : VolumeOf[t] = v => t \notin Bound
      <4>1. dev'[v] = "tearing"
        BY <1>0, <3>1 DEF TypeOK
      <4> QED BY <1>0, <2>1, <4>1 DEF Leftovers, Bound, Unbound
    <3>4. Contract!LearnVolume(v)
      BY <2>1, <2>2, <3>1, <3>2, <3>3 DEF Contract!LearnVolume, Contract!TargetsOf, Path, Bound
    <3> QED BY <3>4 DEF Contract!Next, Contract!OnVolume
  <2>4. CASE o # "unstage"
    <3>1. dev' = dev
      BY <1>2, <2>4 DEF BeginDevice
    <3> QED BY <2>1, <2>2, <3>1 DEF Contract!vars, Path, Bound
  <2> QED BY <2>3, <2>4
<1>3. ASSUME NEW h \in Calls, NEW t \in Targets, NEW o \in PodOps, BeginPod(h, t, o)
      PROVE [Contract!Next]_(Contract!vars)
  <2>1. UNCHANGED <<dev, stageKeys, pubKeys, store, stage, bind, serving>>
    BY <1>3 DEF BeginPod, Start
  <2>2. Path' = Path /\ Bound' = Bound
    BY <2>1 DEF Path, Bound
  <2>3. acked' = acked \/ acked' = [acked EXCEPT ![t] = "tearing"]
    BY <1>3 DEF BeginPod
  <2>4. CASE acked' = acked
    BY <2>1, <2>2, <2>4 DEF Contract!vars, Path, Bound
  <2>5. CASE acked' = [acked EXCEPT ![t] = "tearing"]
    <3>1. Contract!LearnTarget(t)
      BY <2>1, <2>2, <2>5 DEF Contract!LearnTarget, Path, Bound
    <3> QED BY <3>1 DEF Contract!Next, Contract!OnTarget
  <2> QED BY <2>3, <2>4, <2>5
<1>4. ASSUME NEW h \in Calls, Abandon(h) PROVE [Contract!Next]_(Contract!vars)
  <2>1. Answer(h, FALSE) /\ UNCHANGED <<stageKeys, pubKeys, store, stage, bind, serving>>
    BY <1>4 DEF Abandon
  <2> QED BY <2>1, RefusalKeepsContract
<1>5. ASSUME NEW h \in Calls, KeyStep(h) PROVE [Contract!Next]_(Contract!vars)
  BY <1>5, KeyStepKeepsContract
<1>6. ASSUME NEW v \in Volumes, LingerEnds(v) PROVE [Contract!Next]_(Contract!vars)
  <2>1. UNCHANGED <<dev, acked, stageKeys, pubKeys, store, serving>>
    BY <1>6 DEF LingerEnds
  <2>2. Bound' = Bound
    BY <1>0, <1>6, UnbackedIsBound DEF LingerEnds, Bound, Unbound
  <2>3. CASE stage[v] \in Served
    <3>1. stage' = [stage EXCEPT ![v] = "dir"]
      BY <1>6, <2>3 DEF LingerEnds
    <3>2. Path[v] = "mount" /\ Path' = [Path EXCEPT ![v] = "dir"]
      BY <1>0, <2>3, <3>1, PathAt DEF Path, Seen, Served
    <3>3. Contract!LateUnmount(v)
      BY <2>1, <2>2, <3>2 DEF Contract!LateUnmount, Path, Bound
    <3> QED BY <3>3 DEF Contract!Next, Contract!OnVolume
  <2>4. CASE stage[v] \notin Served
    <3>1. Path' = Path
      BY <1>0, <1>6, <2>4 DEF LingerEnds, Path, TypeOK
    <3> QED BY <2>1, <2>2, <3>1 DEF Contract!vars, Path, Bound
  <2> QED BY <2>3, <2>4
<1>7. CASE Crash
  <2> DEFINE LostVolumes == {v \in Volumes : \E h \in waiting : vol[h] = v /\ op[h] = "stage"}
             LostTargets == {t \in Targets : \E h \in waiting : tgt[h] = t /\ op[h] = "publish"}
  <2>1. /\ dev' = [v \in Volumes |-> IF v \in LostVolumes THEN "unknown" ELSE dev[v]]
        /\ acked' = [t \in Targets |-> IF t \in LostTargets THEN "unknown" ELSE acked[t]]
    BY <1>7 DEF Crash
  <2>2. LostVolumes \in SUBSET Volumes /\ LostTargets \in SUBSET Targets
    OBVIOUS
  <2>3. Bound' = Bound /\ stageKeys' = {} /\ pubKeys' = {} /\ serving' = FALSE /\ store' = store
    BY <1>7 DEF Crash, Bound
  <2>4. Path' = [v \in Volumes |-> IF Path[v] = "mount" THEN "broken" ELSE Path[v]]
    BY <1>7 DEF Crash, Path, Seen, Served
  <2> HIDE DEF LostVolumes, LostTargets
  <2>5. Contract!Restart
    BY <2>1, <2>2, <2>3, <2>4 DEF Contract!Restart, Path, Bound
  <2> QED BY <2>5 DEF Contract!Next
<1>8. CASE BootStep
  <2>1. CASE StartServing
    <3>1. UNCHANGED <<dev, acked, stageKeys, pubKeys, store, stage, bind>> /\ ~serving /\ serving' = TRUE
      BY <2>1 DEF StartServing
    <3>2. Contract!Serve
      BY <3>1 DEF Contract!Serve
    <3> QED BY <3>2 DEF Contract!Next
  <2>2. ASSUME NEW v \in Volumes, RemountSucceeds(v) \/ RemountFails(v)
        PROVE  [Contract!Next]_(Contract!vars)
    <3>1. ~serving /\ v \in store
      BY <1>0, <2>2 DEF RemountSucceeds, RemountFails, Leftovers, Kept, Control, BootAlone
    <3>2. /\ UNCHANGED <<dev, acked, stageKeys, pubKeys, store, serving, bind>>
          /\ \/ stage' = stage
             \/ \E s \in Served \cup {"dir", "absent"} : stage' = [stage EXCEPT ![v] = s]
      BY <2>2 DEF RemountSucceeds, RemountFails, Served
    <3>3. Bound' = Bound
      BY <3>2 DEF Bound
    <3>4. CASE stage' = stage
      BY <3>2, <3>3, <3>4 DEF Contract!vars, Path, Bound
    <3>5. ASSUME NEW s \in Served \cup {"dir", "absent"}, stage' = [stage EXCEPT ![v] = s]
          PROVE  [Contract!Next]_(Contract!vars)
      <4>1. Path' = [Path EXCEPT ![v] = Seen(s)] /\ Seen(s) \in {"none", "dir", "mount"}
        BY <1>0, <3>5, PathAt DEF Seen, Served
      <4>2. Contract!Recover(v)
        BY <3>1, <3>2, <3>3, <4>1 DEF Contract!Recover, Contract!Readable, Path, Bound
      <4> QED BY <4>2 DEF Contract!Next, Contract!OnVolume
    <3> QED BY <3>2, <3>4, <3>5
  <2> QED BY <1>8, <2>1, <2>2 DEF BootStep
<1>9. CASE UNCHANGED vars
  BY <1>9 DEF vars, Contract!vars
<1> QED
  BY <1>1, <1>2, <1>3, <1>4, <1>5, <1>6, <1>7, <1>8, <1>9 DEF Next, CallStep, Working

(* Every behaviour of staging is one its contract with kubelet allows      *)
(* (NodeStageVolume, NodeUnstageVolume, the bind publish and unpublish,    *)
(* RemountAllStates).                                                      *)
THEOREM StageContractImplemented == Spec => ContractKept
<1>1. Init => Reported
  BY DEF Init, Reported
<1>2. Control /\ Told /\ Reported /\ [Next]_vars => Reported'
  BY ReportedStep DEF Told, Requests
<1>3. Control /\ Safe /\ Told /\ Reported => Kept
  BY DEF Kept, Safe
<1>4. Spec => [](Control /\ Told) /\ []Kept
  BY <1>1, <1>2, <1>3, ToldHolds, ControlHolds, SafeInit, SafeStep, PTL DEF Spec
<1>5. Spec => Contract!Init /\ [][Contract!Next]_(Contract!vars)
  BY <1>4, ContractInit, ContractStep, PTL DEF Spec
<1> QED BY <1>5, PTL DEF ContractKept, Contract!Spec

===============================================================================

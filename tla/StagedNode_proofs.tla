-------------------------- MODULE StagedNode_proofs --------------------------
(* Proofs about staging mode, for any targets, volumes and calls.          *)
EXTENDS StagedNode, TLAPS

USE DEF callVars, keyVars, memVars, bootVars

(* Every variable keeps its type.                                          *)
LEMMA TypeInit == Init => TypeOK
  BY ConstantsAssumption DEF Init, TypeOK, PCs, StageWork, TargetWork, DeviceOps, PodOps

LEMMA TypeStep == TypeOK /\ [Next]_vars => TypeOK'
<1> SUFFICES ASSUME TypeOK, [Next]_vars PROVE TypeOK'
  OBVIOUS
<1> USE ConstantsAssumption DEF TypeOK, PCs, StageWork, TargetWork, DeviceOps, PodOps, Served, Mounted
<1>1. ASSUME NEW h \in Calls, NEW v \in Volumes, NEW o \in DeviceOps, BeginDevice(h, v, o)
      PROVE TypeOK'
  BY <1>1 DEF BeginDevice, Start
<1>2. ASSUME NEW h \in Calls, NEW t \in Targets, NEW o \in PodOps, BeginPod(h, t, o)
      PROVE TypeOK'
  BY <1>2 DEF BeginPod, Start
<1>3. ASSUME NEW h \in Calls, Abandon(h) PROVE TypeOK'
  BY <1>3 DEF Abandon, Answer
<1>4. ASSUME NEW h \in Calls, KeyStep(h) PROVE TypeOK'
  <2>1. CASE TakeTarget(h)
    BY <2>1 DEF TakeTarget, Goto
  <2>2. CASE TakeStage(h)
    BY <2>2 DEF TakeStage, Goto
  <2>3. CASE RefuseBusy(h)
    BY <2>3 DEF RefuseBusy, HoldsTarget, Goto, EndCall, Answer
  <2>4. CASE ReleaseStage(h)
    BY <2>4 DEF ReleaseStage, Goto
  <2>5. CASE Finish(h)
    BY <2>5 DEF Finish, EndCall, Answer
  <2> QED BY <1>4, <2>1, <2>2, <2>3, <2>4, <2>5 DEF KeyStep
<1>5. ASSUME NEW h \in Calls, StageStep(h) PROVE TypeOK'
  <2>1. CASE AlreadyStaged(h)
    BY <2>1 DEF AlreadyStaged, Goto
  <2>2. CASE NotStaged(h)
    BY <2>2 DEF NotStaged, CleanStaging, TearDown, Unbacked, Goto
  <2>3. CASE AdoptMount(h)
    BY <2>3 DEF AdoptMount, Goto
  <2>4. CASE PrepareStaging(h)
    BY <2>4 DEF PrepareStaging, Unbacked, Goto
  <2>5. CASE PrepareFails(h)
    BY <2>5 DEF PrepareFails, Unbacked, Goto
  <2>6. CASE LoadConfig(h)
    BY <2>6 DEF LoadConfig, Goto
  <2>7. CASE Register(h)
    BY <2>7 DEF Register, Goto
  <2>8. CASE SaveState(h)
    BY <2>8 DEF SaveState, Goto
  <2> QED BY <1>5, <2>1, <2>2, <2>3, <2>4, <2>5, <2>6, <2>7, <2>8 DEF StageStep
<1>6. ASSUME NEW h \in Calls, MountStep(h) PROVE TypeOK'
  <2>1. CASE MountStaging(h)
    BY <2>1 DEF MountStaging, Goto
  <2>2. CASE MountFails(h)
    BY <2>2 DEF MountFails, Goto
  <2> QED BY <1>6, <2>1, <2>2 DEF MountStep
<1>7. ASSUME NEW h \in Calls, PublishStep(h) PROVE TypeOK'
  <2>1. CASE LookAtStaging(h) \/ ReadCache(h) \/ DropCache(h)
    BY <2>1 DEF LookAtStaging, ReadCache, DropCache, Goto
  <2>2. CASE RebuildCache(h)
    BY <2>2 DEF RebuildCache, Goto
  <2>3. CASE Restage(h)
    BY <2>3 DEF Restage, CleanStaging, TearDown, Unbacked, Goto
  <2>4. CASE AlreadyPublished(h)
    BY <2>4 DEF AlreadyPublished, Goto
  <2>5. CASE PrepareTarget(h)
    BY <2>5 DEF PrepareTarget, Goto
  <2>6. CASE BindPublish(h)
    BY <2>6 DEF BindPublish, BindOf, Goto
  <2> QED BY <1>7, <2>1, <2>2, <2>3, <2>4, <2>5, <2>6 DEF PublishStep
<1>8. ASSUME NEW h \in Calls, TakeDownStep(h) PROVE TypeOK'
  <2>1. CASE Unbind(h)
    BY <2>1 DEF Unbind, Goto
  <2>2. CASE Unstage(h)
    BY <2>2 DEF Unstage, TearDown, Unbacked, Goto
  <2>3. CASE Forget(h)
    BY <2>3 DEF Forget, Goto
  <2> QED BY <1>8, <2>1, <2>2, <2>3 DEF TakeDownStep
<1>9. ASSUME NEW v \in Volumes, LingerEnds(v) PROVE TypeOK'
  BY <1>9 DEF LingerEnds, Unbacked
<1>10. CASE Crash
  <2>1. /\ stage' \in [Volumes -> Mounted \cup {"absent", "dir"}]
        /\ bind' \in [Targets -> {"absent", "dir", "bare", "live", "stale", "corrupt"}]
    BY <1>10 DEF Crash
  <2>2. dev' \in [Volumes -> {"none", "staged", "unknown", "tearing"}]
    BY <1>10 DEF Crash
  <2>3. acked' \in [Targets -> {"none", "published", "unknown", "tearing"}]
    BY <1>10 DEF Crash
  <2>4. boot' \subseteq Volumes /\ store' \subseteq Volumes
    <3>1. boot' = store \/ boot' = {}
      BY <1>10 DEF Crash
    <3>2. store' = store /\ store \subseteq Volumes
      BY <1>10 DEF Crash
    <3> QED BY ONLY <3>1, <3>2
  <2>5. serving' \in BOOLEAN
    BY <1>10, Zenon DEF Crash
  <2>6. crashes' \in 0 .. MaxCrashes
    BY <1>10 DEF Crash
  <2>7. /\ pc' \in [Calls -> PCs]
        /\ op' \in [Calls -> DeviceOps \cup PodOps]
        /\ tgt' \in [Calls -> Targets \cup {NoTarget}]
        /\ vol' \in [Calls -> Volumes \cup {NoVolume}]
        /\ \A h \in Calls : pc'[h] = "idle"
    BY <1>10 DEF Crash
  <2>8. /\ waiting' = {} /\ stageKeys' = {} /\ pubKeys' = {}
        /\ loaded' = {} /\ mctx' = {} /\ cached' = {} /\ linger' = {}
    BY <1>10 DEF Crash
  <2> QED BY <2>1, <2>2, <2>3, <2>4, <2>5, <2>6, <2>7, <2>8
<1>11. CASE BootStep
  <2>1. CASE StartServing
    BY <2>1 DEF StartServing
  <2>2. ASSUME NEW v \in Volumes, RemountSucceeds(v) PROVE TypeOK'
    BY <2>2 DEF RemountSucceeds
  <2>3. ASSUME NEW v \in Volumes, RemountFails(v) PROVE TypeOK'
    BY <2>3 DEF RemountFails
  <2> QED BY <1>11, <2>1, <2>2, <2>3 DEF BootStep
<1>12. CASE UNCHANGED vars
  BY <1>12 DEF vars
<1> QED
  BY <1>1, <1>2, <1>3, <1>4, <1>5, <1>6, <1>7, <1>8, <1>9, <1>10, <1>11, <1>12 DEF Next, CallStep

THEOREM TypeCorrect == Spec => []TypeOK
  BY TypeInit, TypeStep, PTL DEF Spec

-----------------------------------------------------------------------------
(* The inductive invariant. First KeysExclusive, element by element.       *)
StageOwned ==
  /\ \A h \in Calls : HoldsStage(h) => vol[h] \in stageKeys
  /\ \A v \in stageKeys : \E h \in Calls : HoldsStage(h) /\ vol[h] = v
  /\ \A g, h \in Calls : HoldsStage(g) /\ HoldsStage(h) /\ vol[g] = vol[h] => g = h

TargetOwned ==
  /\ \A h \in Calls : HoldsTarget(h) => tgt[h] \in pubKeys
  /\ \A t \in pubKeys : \E h \in Calls : HoldsTarget(h) /\ tgt[h] = t
  /\ \A g, h \in Calls : HoldsTarget(g) /\ HoldsTarget(h) /\ tgt[g] = tgt[h] => g = h

LEMMA OwnedIsExclusive == TypeOK /\ StageOwned /\ TargetOwned => KeysExclusive
<1> SUFFICES ASSUME TypeOK, StageOwned, TargetOwned PROVE KeysExclusive
  OBVIOUS
<1>1. stageKeys = {vol[h] : h \in {g \in Calls : HoldsStage(g)}}
  BY DEF StageOwned
<1>2. pubKeys = {tgt[h] : h \in {g \in Calls : HoldsTarget(g)}}
  BY DEF TargetOwned
<1> QED BY <1>1, <1>2 DEF KeysExclusive, StageOwned, TargetOwned

(* The boot loop runs alone.                                               *)
BootAlone ==
  /\ ~serving => \A h \in Calls : pc[h] = "idle"
  /\ boot # {} => ~serving

(* What kubelet waits for, and what it may have under way at once. A       *)
(* device call excludes the others on its volume only while its caller     *)
(* waits; the last three parts say why an abandoned publish and an unstage *)
(* never meet all the same.                                                *)
Kubelet ==
  /\ \A h \in Calls : pc[h] = "plock" \/ (pc[h] = "slock" /\ op[h] \in DeviceOps) => h \in waiting
  /\ \A h \in waiting : pc[h] # "idle"
  /\ \A g, h \in waiting : g # h /\ op[g] \in DeviceOps => vol[g] # vol[h]
  /\ \A h \in Calls : pc[h] # "idle" /\ op[h] = "unstage" => dev[vol[h]] # "staged"
  /\ \A h \in Calls : pc[h] # "idle" /\ op[h] = "publish" /\ h \notin waiting => acked[tgt[h]] # "none"
  /\ \A g, h \in Calls :
       pc[g] # "idle" /\ op[g] = "unstage" /\ pc[h] # "idle" /\ op[h] = "publish" => vol[g] # vol[h]

Control == TypeOK /\ StageOwned /\ TargetOwned /\ BootAlone /\ Kubelet

(* A step of a handler between taking its first key and its end.           *)
Inside(h) ==
  /\ pc[h] \in StageWork \cup TargetWork
  /\ pc'[h] \notin {"idle", "plock"}
  /\ pc[h] \in StageWork <=> pc'[h] \in StageWork
  /\ pc'[h] = "slock" => op[h] \in PodOps
  /\ \A g \in Calls \ {h} : pc'[g] = pc[g]
  /\ UNCHANGED <<op, tgt, vol, waiting, stageKeys, pubKeys, dev, acked, boot, serving, crashes>>

Working(h) == StageStep(h) \/ MountStep(h) \/ PublishStep(h) \/ TakeDownStep(h)

LEMMA WorkIsInside ==
  ASSUME TypeOK, NEW h \in Calls, Working(h)
  PROVE  Inside(h)
<1> USE DEF Goto, Inside, TypeOK, PCs, StageWork, TargetWork
<1>1. CASE StageStep(h)
  BY <1>1 DEF StageStep, AlreadyStaged, NotStaged, CleanStaging, TearDown, AdoptMount,
     PrepareStaging, PrepareFails, LoadConfig, Register, SaveState
<1>2. CASE MountStep(h)
  BY <1>2 DEF MountStep, MountStaging, MountFails
<1>3. CASE PublishStep(h)
  <2>1. CASE LookAtStaging(h) \/ ReadCache(h) \/ DropCache(h)
    BY <2>1 DEF LookAtStaging, ReadCache, DropCache
  <2>2. CASE RebuildCache(h)
    BY <2>2 DEF RebuildCache
  <2>3. CASE Restage(h)
    BY <2>3 DEF Restage, CleanStaging, TearDown
  <2>4. CASE AlreadyPublished(h)
    BY <2>4 DEF AlreadyPublished
  <2>5. CASE PrepareTarget(h)
    BY <2>5 DEF PrepareTarget
  <2>6. CASE BindPublish(h)
    BY <2>6 DEF BindPublish
  <2> QED BY <1>3, <2>1, <2>2, <2>3, <2>4, <2>5, <2>6 DEF PublishStep
<1>4. CASE TakeDownStep(h)
  BY <1>4 DEF TakeDownStep, Unbind, Unstage, TearDown, Forget
<1> QED BY <1>1, <1>2, <1>3, <1>4 DEF Working

LEMMA ControlInit == Init => Control
<1> SUFFICES ASSUME Init PROVE Control
  OBVIOUS
<1>1. \A h \in Calls : pc[h] = "idle" /\ ~HoldsStage(h) /\ ~HoldsTarget(h)
  BY DEF Init, HoldsStage, HoldsTarget, StageWork
<1>2. StageOwned /\ TargetOwned
  BY <1>1 DEF Init, StageOwned, TargetOwned
<1>3. BootAlone
  BY <1>1 DEF Init, BootAlone
<1>4. Kubelet
  <2>1. waiting = {}
    BY DEF Init
  <2> QED BY <1>1, <2>1 DEF Kubelet
<1> QED BY <1>2, <1>3, <1>4, TypeInit DEF Control

(* What an answer may teach kubelet.                                       *)
LEMMA AnswerTeaches ==
  ASSUME TypeOK, NEW h \in Calls, NEW ok \in BOOLEAN, Answer(h, ok)
  PROVE  /\ waiting' = waiting \ {h}
         /\ \A v \in Volumes : dev'[v] = "staged" =>
              dev[v] = "staged" \/ (ok /\ h \in waiting /\ op[h] = "stage" /\ v = vol[h])
         /\ \A t \in Targets : acked'[t] = "none" =>
              acked[t] = "none" \/ (ok /\ h \in waiting /\ op[h] = "unpublish" /\ t = tgt[h])
  BY DEF TypeOK, Answer

LEMMA ControlStep == Control /\ [Next]_vars => Control'
<1> SUFFICES ASSUME Control, [Next]_vars PROVE Control'
  OBVIOUS
<1>0. TypeOK /\ TypeOK'
  BY TypeStep DEF Control
<1> DEFINE Rest == StageOwned /\ TargetOwned /\ BootAlone /\ Kubelet
<1> SUFFICES Rest'
  BY <1>0 DEF Control
<1> USE ConstantsAssumption, <1>0 DEF Control, HoldsStage, HoldsTarget, StageWork, TargetWork
<1>1. ASSUME NEW h \in Calls, NEW v \in Volumes, NEW o \in DeviceOps, BeginDevice(h, v, o)
      PROVE Rest'
  <2>1. StageOwned' /\ TargetOwned' /\ BootAlone'
    BY <1>1 DEF BeginDevice, Start, StageOwned, TargetOwned, BootAlone, TypeOK, DeviceOps, PodOps
  <2>2. Kubelet'
    BY <1>1 DEF BeginDevice, Start, Kubelet, TypeOK, DeviceOps, PodOps
  <2> QED BY <2>1, <2>2
<1>2. ASSUME NEW h \in Calls, NEW t \in Targets, NEW o \in PodOps, BeginPod(h, t, o)
      PROVE Rest'
  <2>1. StageOwned' /\ TargetOwned' /\ BootAlone'
    BY <1>2 DEF BeginPod, Start, StageOwned, TargetOwned, BootAlone, TypeOK, DeviceOps, PodOps
  <2>2. Kubelet'
    BY <1>2 DEF BeginPod, Start, Kubelet, TypeOK, DeviceOps, PodOps
  <2> QED BY <2>1, <2>2
<1>3. ASSUME NEW h \in Calls, Abandon(h) PROVE Rest'
  <2>1. StageOwned' /\ TargetOwned' /\ BootAlone'
    BY <1>3 DEF Abandon, StageOwned, TargetOwned, BootAlone
  <2>2. Kubelet'
    BY <1>3 DEF Abandon, Answer, Kubelet, TypeOK, DeviceOps, PodOps
  <2> QED BY <2>1, <2>2
<1>4. ASSUME NEW h \in Calls, KeyStep(h) PROVE Rest'
  <2> USE DEF TypeOK, DeviceOps, PodOps
  <2>1. CASE TakeTarget(h)
    <3>1. StageOwned' /\ TargetOwned'
      BY <2>1 DEF TakeTarget, Goto, StageOwned, TargetOwned
    <3>2. BootAlone' /\ Kubelet'
      BY <2>1 DEF TakeTarget, Goto, BootAlone, Kubelet
    <3> QED BY <3>1, <3>2
  <2>2. CASE TakeStage(h)
    <3>1. StageOwned' /\ TargetOwned'
      BY <2>2 DEF TakeStage, Goto, StageOwned, TargetOwned
    <3>2. BootAlone' /\ Kubelet'
      BY <2>2 DEF TakeStage, Goto, BootAlone, Kubelet
    <3> QED BY <3>1, <3>2
  <2>3. CASE RefuseBusy(h)
    <3>1. StageOwned' /\ TargetOwned'
      <4>1. CASE HoldsTarget(h)
        BY <2>3, <4>1 DEF RefuseBusy, Goto, StageOwned, TargetOwned
      <4>2. CASE ~HoldsTarget(h)
        <5>0. EndCall(h) /\ UNCHANGED keyVars /\ pc[h] \in {"plock", "slock"}
          BY <2>3, <4>2 DEF RefuseBusy
        <5>1. ~HoldsStage(h) /\ ~HoldsTarget(h)' /\ ~HoldsStage(h)'
          BY <5>0 DEF EndCall
        <5>2. /\ UNCHANGED keyVars
              /\ \A g \in Calls \ {h} : pc'[g] = pc[g] /\ op'[g] = op[g] /\ tgt'[g] = tgt[g] /\ vol'[g] = vol[g]
          BY <5>0 DEF EndCall
        <5>3. /\ \A g \in Calls : HoldsStage(g)' <=> HoldsStage(g)
              /\ \A g \in Calls : HoldsTarget(g)' <=> HoldsTarget(g)
              /\ \A g \in Calls : HoldsStage(g) => vol'[g] = vol[g]
              /\ \A g \in Calls : HoldsTarget(g) => tgt'[g] = tgt[g]
          BY <4>2, <5>1, <5>2
        <5> HIDE DEF HoldsStage, HoldsTarget
        <5> QED BY <5>2, <5>3 DEF StageOwned, TargetOwned
      <4> QED BY <4>1, <4>2
    <3>2. BootAlone'
      BY <2>3 DEF RefuseBusy, Goto, EndCall, BootAlone
    <3>3. Kubelet'
      <4>1. CASE HoldsTarget(h)
        BY <2>3, <4>1 DEF RefuseBusy, Goto, Kubelet
      <4>2. CASE ~HoldsTarget(h)
        <5>1. Answer(h, FALSE)
          BY <2>3, <4>2 DEF RefuseBusy
        <5>2. /\ waiting' = waiting \ {h}
              /\ \A v \in Volumes : dev'[v] = "staged" => dev[v] = "staged"
              /\ \A t \in Targets : acked'[t] = "none" => acked[t] = "none"
          BY <5>1, AnswerTeaches
        <5>4. EndCall(h)
          BY <2>3, <4>2 DEF RefuseBusy
        <5>3. /\ pc' = [pc EXCEPT ![h] = "idle"]
              /\ \A g \in Calls \ {h} : op'[g] = op[g] /\ tgt'[g] = tgt[g] /\ vol'[g] = vol[g]
          BY <5>4 DEF EndCall
        <5> QED BY <5>2, <5>3 DEF Kubelet
      <4> QED BY <4>1, <4>2
    <3> QED BY <3>1, <3>2, <3>3
  <2>4. CASE ReleaseStage(h)
    <3>1. StageOwned' /\ TargetOwned'
      BY <2>4 DEF ReleaseStage, Goto, StageOwned, TargetOwned
    <3>2. BootAlone' /\ Kubelet'
      BY <2>4 DEF ReleaseStage, Goto, BootAlone, Kubelet
    <3> QED BY <3>1, <3>2
  <2>5. CASE Finish(h)
    <3>1. StageOwned' /\ TargetOwned'
      BY <2>5 DEF Finish, EndCall, StageOwned, TargetOwned
    <3>2. BootAlone'
      BY <2>5 DEF Finish, EndCall, BootAlone
    <3>3. Kubelet'
      <4>1. Answer(h, pc[h] \in {"staged", "ok"})
        BY <2>5 DEF Finish
      <4>2. /\ waiting' = waiting \ {h}
            /\ \A v \in Volumes : dev'[v] = "staged" =>
                 \/ dev[v] = "staged"
                 \/ h \in waiting /\ op[h] = "stage" /\ v = vol[h]
            /\ \A t \in Targets : acked'[t] = "none" =>
                 acked[t] = "none" \/ (op[h] = "unpublish" /\ t = tgt[h])
        <5> DEFINE ok == pc[h] \in {"staged", "ok"}
        <5>1. ok \in BOOLEAN /\ Answer(h, ok)
          BY <4>1
        <5> HIDE DEF ok
        <5> QED BY <5>1, AnswerTeaches
      <4>3. /\ HoldsStage(h) \/ HoldsTarget(h)
            /\ op[h] = "stage" => HoldsStage(h)
            /\ op[h] = "unpublish" => HoldsTarget(h)
            /\ pc' = [pc EXCEPT ![h] = "idle"]
            /\ \A g \in Calls \ {h} : op'[g] = op[g] /\ tgt'[g] = tgt[g] /\ vol'[g] = vol[g]
        BY <2>5 DEF Finish, EndCall
      <4>4. ASSUME NEW g \in Calls, pc'[g] # "idle", op'[g] = "unstage"
            PROVE dev'[vol'[g]] # "staged"
        <5>1. g # h /\ dev[vol[g]] # "staged" /\ vol[g] \in Volumes
          BY <4>3, <4>4 DEF Kubelet
        <5>2. ~(h \in waiting /\ op[h] = "stage" /\ vol[g] = vol[h])
          <6>1. pc[g] = "slock" \/ HoldsStage(g)
            BY <4>3, <4>4, <5>1 DEF PCs
          <6> QED BY <4>3, <4>4, <5>1, <6>1 DEF Kubelet, StageOwned
        <5> QED BY <4>2, <4>3, <5>1, <5>2
      <4>5. ASSUME NEW g \in Calls, pc'[g] # "idle", op'[g] = "publish", g \notin waiting'
            PROVE acked'[tgt'[g]] # "none"
        <5>1. g # h /\ g \notin waiting /\ acked[tgt[g]] # "none" /\ tgt[g] \in Targets
          BY <4>2, <4>3, <4>5 DEF Kubelet
        <5>2. ~(op[h] = "unpublish" /\ tgt[g] = tgt[h])
          BY <4>3, <4>5, <5>1 DEF Kubelet, TargetOwned
        <5> QED BY <4>2, <4>3, <5>1, <5>2
      <4>6. /\ \A g \in Calls : pc'[g] = "plock" \/ (pc'[g] = "slock" /\ op'[g] \in DeviceOps)
                               => g \in waiting'
            /\ \A g \in waiting' : pc'[g] # "idle"
            /\ \A f, g \in waiting' : f # g /\ op'[f] \in DeviceOps => vol'[f] # vol'[g]
        BY <4>2, <4>3 DEF Kubelet
      <4>7. \A f, g \in Calls :
              pc'[f] # "idle" /\ op'[f] = "unstage" /\ pc'[g] # "idle" /\ op'[g] = "publish"
                => vol'[f] # vol'[g]
        BY <4>3 DEF Kubelet
      <4> QED BY <4>4, <4>5, <4>6, <4>7 DEF Kubelet
    <3> QED BY <3>1, <3>2, <3>3
  <2> QED BY <1>4, <2>1, <2>2, <2>3, <2>4, <2>5 DEF KeyStep
<1>5. ASSUME NEW h \in Calls, Working(h) PROVE Rest'
  <2>1. Inside(h)
    BY <1>5, WorkIsInside
  <2>2. StageOwned' /\ TargetOwned'
    BY <2>1 DEF Inside, StageOwned, TargetOwned, TypeOK
  <2>3. BootAlone'
    BY <2>1 DEF Inside, BootAlone
  <2>4. Kubelet'
    BY <2>1 DEF Inside, Kubelet, TypeOK, DeviceOps, PodOps
  <2> QED BY <2>2, <2>3, <2>4
<1>6. ASSUME NEW v \in Volumes, LingerEnds(v) PROVE Rest'
  BY <1>6 DEF LingerEnds, StageOwned, TargetOwned, BootAlone, Kubelet
<1>7. CASE Crash
  <2>1. /\ \A h \in Calls : pc'[h] = "idle"
        /\ stageKeys' = {} /\ pubKeys' = {} /\ waiting' = {} /\ serving' = FALSE
    BY <1>7 DEF Crash
  <2>2. StageOwned' /\ TargetOwned'
    BY <2>1 DEF StageOwned, TargetOwned
  <2>3. BootAlone'
    BY <2>1 DEF BootAlone
  <2>4. Kubelet'
    BY <2>1 DEF Kubelet
  <2> QED BY <2>2, <2>3, <2>4
<1>8. CASE BootStep
  BY <1>8 DEF BootStep, StartServing, RemountSucceeds, RemountFails,
     StageOwned, TargetOwned, BootAlone, Kubelet
<1>9. CASE UNCHANGED vars
  BY <1>9 DEF vars, StageOwned, TargetOwned, BootAlone, Kubelet
<1> QED
  BY <1>1, <1>2, <1>3, <1>4, <1>5, <1>6, <1>7, <1>8, <1>9 DEF Next, CallStep, Working

LEMMA ControlHolds == Spec => []Control
  BY ControlInit, ControlStep, PTL DEF Spec

(* A key, of either family, is held by exactly one call at work under it.  *)
THEOREM KeysSafe == Spec => []KeysExclusive
<1>1. Control => KeysExclusive
  BY OwnedIsExclusive DEF Control
<1> QED BY <1>1, ControlHolds, PTL

(* No unstage works on a volume while a publish of it is at work.          *)
THEOREM UnstageAfterPublish == Spec => []NoUnstageUnderPublish
<1>1. Control => NoUnstageUnderPublish
  BY DEF Control, Kubelet, NoUnstageUnderPublish, HoldsStage, HoldsTarget, StageWork
<1> QED BY <1>1, ControlHolds, PTL

-----------------------------------------------------------------------------
(* What the staging path of a call looks like where the call relies on it. *)
StagePaths ==
  \A h \in Calls :
    /\ pc[h] \in {"load", "mount"} => stage[vol[h]] = "dir"
    /\ pc[h] \in {"mount", "register"} => vol[h] \in loaded
    /\ pc[h] = "forget" => stage[vol[h]] = "absent"

Safe == StagePaths /\ NoUnownedStage

LEMMA SafeInit == Init => Safe
  BY DEF Init, Safe, StagePaths, NoUnownedStage

(* A step of a handler changes its own volume alone, under its key.        *)
LEMMA WorkIsLocal ==
  ASSUME TypeOK, NEW h \in Calls, Working(h), NEW v \in Volumes, v # vol[h] \/ ~HoldsStage(h)
  PROVE  /\ stage'[v] = stage[v]
         /\ v \in mctx' <=> v \in mctx
         /\ v \in loaded' <=> v \in loaded
<1> USE DEF Goto, TypeOK, HoldsStage, StageWork, TargetWork
<1>1. CASE StageStep(h)
  <2>1. CASE AlreadyStaged(h)
    BY <2>1 DEF AlreadyStaged
  <2>2. CASE NotStaged(h)
    BY <2>2 DEF NotStaged, CleanStaging, TearDown
  <2>3. CASE AdoptMount(h)
    BY <2>3 DEF AdoptMount
  <2>4. CASE PrepareStaging(h)
    BY <2>4 DEF PrepareStaging
  <2>5. CASE PrepareFails(h)
    BY <2>5 DEF PrepareFails
  <2>6. CASE LoadConfig(h)
    BY <2>6 DEF LoadConfig
  <2>7. CASE Register(h)
    BY <2>7 DEF Register
  <2>8. CASE SaveState(h)
    BY <2>8 DEF SaveState
  <2> QED BY <1>1, <2>1, <2>2, <2>3, <2>4, <2>5, <2>6, <2>7, <2>8 DEF StageStep
<1>2. CASE MountStep(h)
  BY <1>2 DEF MountStep, MountStaging, MountFails
<1>3. CASE PublishStep(h)
  <2>1. CASE Restage(h)
    BY <2>1 DEF Restage, CleanStaging, TearDown
  <2>2. CASE ~Restage(h)
    BY <1>3, <2>2 DEF PublishStep, LookAtStaging, ReadCache, DropCache, RebuildCache,
       AlreadyPublished, PrepareTarget, BindPublish
  <2> QED BY <2>1, <2>2
<1>4. CASE TakeDownStep(h)
  <2>1. CASE Unstage(h)
    <3>1. UNCHANGED <<mctx, cached>>
      BY <2>1 DEF Unstage
    <3>2. PICK context \in BOOLEAN : TearDown(h, context, "unmount", "forget", "absent")
      BY <2>1 DEF Unstage
    <3> QED BY <3>1, <3>2 DEF TearDown
  <2>2. CASE ~Unstage(h)
    BY <1>4, <2>2 DEF TakeDownStep, Unbind, Forget
  <2> QED BY <2>1, <2>2
<1> QED BY <1>1, <1>2, <1>3, <1>4 DEF Working

(* What a handler leaves at its own volume.                                *)
LEMMA WorkIsSafe ==
  ASSUME TypeOK, StageOwned, Safe, NEW h \in Calls, Working(h), HoldsStage(h)
  PROVE  /\ pc'[h] \in {"load", "mount"} => stage'[vol[h]] = "dir"
         /\ pc'[h] \in {"mount", "register"} => vol[h] \in loaded'
         /\ pc'[h] = "forget" => stage'[vol[h]] = "absent"
         /\ stage'[vol[h]] = "live" =>
              (vol[h] \in mctx' \/ pc'[h] = "register") /\ vol[h] \in loaded'
<1>0. vol[h] \in Volumes
  BY DEF TypeOK, HoldsStage, StageWork
<1>00. stage[vol[h]] = "live" => (vol[h] \in mctx \/ pc[h] = "register") /\ vol[h] \in loaded
  BY <1>0 DEF Safe, NoUnownedStage, StageOwned, HoldsStage, StageWork
<1> USE <1>0, <1>00 DEF Goto, TypeOK, HoldsStage, StageWork, TargetWork, Safe, StagePaths, Served,
        Mounted
<1>1. CASE StageStep(h)
  <2>1. CASE AlreadyStaged(h)
    BY <2>1 DEF AlreadyStaged
  <2>2. CASE NotStaged(h)
    BY <2>2 DEF NotStaged, CleanStaging, TearDown
  <2>3. CASE AdoptMount(h)
    BY <2>3 DEF AdoptMount
  <2>4. CASE PrepareStaging(h)
    BY <2>4 DEF PrepareStaging
  <2>5. CASE PrepareFails(h)
    BY <2>5 DEF PrepareFails
  <2>6. CASE LoadConfig(h)
    BY <2>6 DEF LoadConfig
  <2>7. CASE Register(h)
    BY <2>7 DEF Register
  <2>8. CASE SaveState(h)
    BY <2>8 DEF SaveState
  <2> QED BY <1>1, <2>1, <2>2, <2>3, <2>4, <2>5, <2>6, <2>7, <2>8 DEF StageStep
<1>2. CASE MountStep(h)
  BY <1>2 DEF MountStep, MountStaging, MountFails
<1>3. CASE PublishStep(h)
  <2>1. CASE Restage(h)
    BY <2>1 DEF Restage, CleanStaging, TearDown
  <2>2. CASE ~Restage(h)
    BY <1>3, <2>2 DEF PublishStep, LookAtStaging, ReadCache, DropCache, RebuildCache,
       AlreadyPublished, PrepareTarget, BindPublish
  <2> QED BY <2>1, <2>2
<1>4. CASE TakeDownStep(h)
  <2>1. CASE Unbind(h)
    BY <2>1 DEF Unbind
  <2>2. CASE Unstage(h)
    BY <2>2 DEF Unstage, TearDown
  <2>3. CASE Forget(h)
    BY <2>3 DEF Forget
  <2> QED BY <1>4, <2>1, <2>2, <2>3 DEF TakeDownStep
<1> QED BY <1>1, <1>2, <1>3, <1>4 DEF Working

LEMMA SafeStep == Control /\ Safe /\ [Next]_vars => Safe'
<1> SUFFICES ASSUME Control, Safe, [Next]_vars PROVE Safe'
  OBVIOUS
<1> USE DEF Control
<1>1. ASSUME NEW h \in Calls, Working(h) PROVE Safe'
  <2>1. Inside(h)
    BY <1>1, WorkIsInside
  <2>2. vol[h] \in Volumes /\ (HoldsStage(h) => vol'[h] = vol[h])
    BY <2>1 DEF Inside, TypeOK, StageWork, TargetWork
  <2>3. ASSUME NEW v \in Volumes, stage'[v] = "live"
        PROVE  /\ v \in mctx' \/ \E g \in Calls : pc'[g] = "register" /\ vol'[g] = v
               /\ v \in loaded'
    <3>1. CASE v = vol[h] /\ HoldsStage(h)
      BY <1>1, <2>2, <2>3, <3>1, WorkIsSafe
    <3>2. CASE v # vol[h] \/ ~HoldsStage(h)
      <4>1. stage[v] = "live" /\ (v \in mctx' <=> v \in mctx) /\ (v \in loaded' <=> v \in loaded)
        BY <1>1, <2>3, <3>2, WorkIsLocal
      <4>2. ASSUME NEW g \in Calls, pc[g] = "register", vol[g] = v
            PROVE  pc'[g] = "register" /\ vol'[g] = v
        BY <2>1, <3>2, <4>2 DEF Inside, HoldsStage, StageWork
      <4> QED BY <4>1, <4>2 DEF Safe, NoUnownedStage
    <3> QED BY <3>1, <3>2
  <2>4. ASSUME NEW g \in Calls
        PROVE  /\ pc'[g] \in {"load", "mount"} => stage'[vol'[g]] = "dir"
               /\ pc'[g] \in {"mount", "register"} => vol'[g] \in loaded'
               /\ pc'[g] = "forget" => stage'[vol'[g]] = "absent"
    <3> SUFFICES ASSUME pc'[g] \in {"load", "mount", "register", "forget"}
                 PROVE  /\ pc'[g] \in {"load", "mount"} => stage'[vol'[g]] = "dir"
                        /\ pc'[g] \in {"mount", "register"} => vol'[g] \in loaded'
                        /\ pc'[g] = "forget" => stage'[vol'[g]] = "absent"
      OBVIOUS
    <3>1. HoldsStage(g) /\ vol'[g] = vol[g] /\ vol[g] \in Volumes
      BY <2>1 DEF Inside, HoldsStage, StageWork, TypeOK
    <3>2. CASE g = h
      BY <1>1, <3>1, <3>2, WorkIsSafe
    <3>3. CASE g # h
      <4>1. pc'[g] = pc[g]
        BY <2>1, <3>3 DEF Inside
      <4>2. vol[g] # vol[h] \/ ~HoldsStage(h)
        BY <3>1, <3>3 DEF StageOwned
      <4>3. stage'[vol[g]] = stage[vol[g]] /\ (vol[g] \in loaded' <=> vol[g] \in loaded)
        BY <1>1, <3>1, <4>2, WorkIsLocal
      <4> QED BY <3>1, <4>1, <4>3 DEF Safe, StagePaths
    <3> QED BY <3>2, <3>3
  <2> QED BY <2>3, <2>4 DEF Safe, StagePaths, NoUnownedStage
<1>2. ASSUME NEW h \in Calls, NEW v \in Volumes, NEW o \in DeviceOps, BeginDevice(h, v, o)
      PROVE Safe'
  BY <1>2 DEF BeginDevice, Start, Safe, StagePaths, NoUnownedStage, TypeOK
<1>3. ASSUME NEW h \in Calls, NEW t \in Targets, NEW o \in PodOps, BeginPod(h, t, o)
      PROVE Safe'
  BY <1>3 DEF BeginPod, Start, Safe, StagePaths, NoUnownedStage, TypeOK
<1>4. ASSUME NEW h \in Calls, Abandon(h) PROVE Safe'
  BY <1>4 DEF Abandon, Safe, StagePaths, NoUnownedStage
<1>5. ASSUME NEW h \in Calls, KeyStep(h) PROVE Safe'
  <2>1. /\ stage' = stage /\ mctx' = mctx /\ loaded' = loaded
        /\ \A g \in Calls \ {h} : pc'[g] = pc[g] /\ vol'[g] = vol[g]
        /\ pc[h] # "register" /\ pc'[h] \notin {"load", "mount", "register", "forget"}
    <3>1. CASE TakeTarget(h)
      BY <3>1 DEF TakeTarget, Goto, TypeOK
    <3>2. CASE TakeStage(h)
      BY <3>2 DEF TakeStage, Goto, TypeOK
    <3>3. CASE RefuseBusy(h)
      <4>1. Goto(h, "slock", "err") \/ EndCall(h)
        BY <3>3 DEF RefuseBusy
      <4>3. pc[h] \in {"plock", "slock"}
        BY <3>3 DEF RefuseBusy
      <4>2. UNCHANGED <<memVars, stage>>
        BY <3>3 DEF RefuseBusy
      <4> QED BY <4>1, <4>2, <4>3 DEF Goto, EndCall, TypeOK
    <3>4. CASE ReleaseStage(h)
      BY <3>4 DEF ReleaseStage, Goto, TypeOK
    <3>5. CASE Finish(h)
      BY <3>5 DEF Finish, EndCall, TypeOK
    <3> QED BY <1>5, <3>1, <3>2, <3>3, <3>4, <3>5 DEF KeyStep
  <2> QED BY <2>1 DEF Safe, StagePaths, NoUnownedStage
<1>6. ASSUME NEW v \in Volumes, LingerEnds(v) PROVE Safe'
  BY <1>6 DEF LingerEnds, Safe, StagePaths, NoUnownedStage, TypeOK, Served, StageWork
<1>7. CASE Crash
  BY <1>7 DEF Crash, Safe, StagePaths, NoUnownedStage, TypeOK, Served
<1>8. CASE BootStep
  BY <1>8 DEF BootStep, StartServing, RemountSucceeds, RemountFails, BootAlone,
     Safe, StagePaths, NoUnownedStage, TypeOK
<1>9. CASE UNCHANGED vars
  BY <1>9 DEF vars, Safe, StagePaths, NoUnownedStage
<1> QED
  BY <1>1, <1>2, <1>3, <1>4, <1>5, <1>6, <1>7, <1>8, <1>9 DEF Next, CallStep, Working

(* Nobody mounts over a mount, whoever restages.                           *)
THEOREM StageSafe == Spec => []StageOntoDirectory
<1>1. Safe => StageOntoDirectory
  BY DEF Safe, StagePaths, StageOntoDirectory
<1> QED BY <1>1, ControlHolds, SafeInit, SafeStep, PTL DEF Spec

(* A live staging mount is in mountContext and keeps its sections.         *)
THEOREM NoLeakedStage == Spec => []NoUnownedStage
<1>1. Safe => NoUnownedStage
  BY DEF Safe
<1> QED BY <1>1, ControlHolds, SafeInit, SafeStep, PTL DEF Spec
=============================================================================

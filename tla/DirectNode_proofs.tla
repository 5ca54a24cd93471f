-------------------------- MODULE DirectNode_proofs --------------------------
(* Proofs about direct mode, for any targets, volumes and calls.           *)
EXTENDS DirectNode, TLAPS

USE DEF handlerVars, driverVars, bootVars

(* Every variable keeps its type.                                          *)
LEMMA TypeInit == Init => TypeOK
  BY ConstantsAssumption DEF Init, TypeOK, PCs, Kernels

LEMMA TypeStep == TypeOK /\ [Next]_vars => TypeOK'
<1> SUFFICES ASSUME TypeOK, [Next]_vars PROVE TypeOK'
  OBVIOUS
<1> USE ConstantsAssumption DEF TypeOK, PCs, Locked, Kernels, Served
<1>1. ASSUME NEW h \in Calls, NEW t \in Targets, NEW o \in {"publish", "unpublish"}, Begin(h, t, o)
      PROVE TypeOK'
  BY <1>1 DEF Begin
<1>2. ASSUME NEW h \in Calls, Abandon(h) PROVE TypeOK'
  BY <1>2 DEF Abandon, Answer
<1>3. ASSUME NEW h \in Calls, LockStep(h) PROVE TypeOK'
  <2>1. CASE Acquire(h)
    BY <2>1 DEF Acquire, Goto
  <2>2. CASE Retry(h)
    BY <2>2 DEF Retry
  <2>3. CASE RefuseBusy(h)
    BY <2>3 DEF RefuseBusy, EndCall, Answer
  <2> QED BY <1>3, <2>1, <2>2, <2>3 DEF LockStep
<1>4. ASSUME NEW h \in Calls, PublishStep(h) PROVE TypeOK'
  <2>1. CASE AlreadyPublished(h)
    BY <2>1 DEF AlreadyPublished, Goto
  <2>2. CASE PrepareTarget(h)
    BY <2>2 DEF PrepareTarget, Goto
  <2>3. CASE PrepareFails(h)
    BY <2>3 DEF PrepareFails, Goto
  <2>4. CASE LoadConfig(h)
    BY <2>4 DEF LoadConfig, Goto, Vol
  <2>5. CASE LoadConfigFails(h)
    BY <2>5 DEF LoadConfigFails, Goto, Vol
  <2>6. CASE CollectMount(h)
    BY <2>6 DEF CollectMount, Goto
  <2>7. CASE CollectFailure(h)
    BY <2>7 DEF CollectFailure, Goto
  <2>8. CASE HandOff(h)
    BY <2>8 DEF HandOff, Goto, Answer
  <2>9. CASE SaveState(h)
    BY <2>9 DEF SaveState, Goto
  <2> QED BY <1>4, <2>1, <2>2, <2>3, <2>4, <2>5, <2>6, <2>7, <2>8, <2>9 DEF PublishStep
<1>5. ASSUME NEW h \in Calls, ReapStep(h) PROVE TypeOK'
  <2>1. CASE Reap(h)
    BY <2>1 DEF Reap, Goto
  <2>2. CASE DetachOrphan(h)
    BY <2>2 DEF DetachOrphan, Goto
  <2>3. CASE DropRemotes(h)
    BY <2>3 DEF DropRemotes, Goto, Vol
  <2> QED BY <1>5, <2>1, <2>2, <2>3 DEF ReapStep
<1>6. ASSUME NEW h \in Calls, UnpublishStep(h) PROVE TypeOK'
  <2>1. CASE GracefulUnmount(h)
    BY <2>1 DEF GracefulUnmount, Goto, Vol
  <2>2. CASE SkipGraceful(h)
    BY <2>2 DEF SkipGraceful, Goto
  <2>3. CASE ForceCleanup(h)
    BY <2>3 DEF ForceCleanup, Goto
  <2>4. CASE Forget(h)
    BY <2>4 DEF Forget, Goto
  <2> QED BY <1>6, <2>1, <2>2, <2>3, <2>4 DEF UnpublishStep
<1>7. ASSUME NEW h \in Calls, Release(h) PROVE TypeOK'
  BY <1>7 DEF Release, EndCall, Answer
<1>8. ASSUME NEW h \in Calls, MountStep(h) PROVE TypeOK'
  <2>1. CASE NewFs(h)
    BY <2>1 DEF NewFs
  <2>2. CASE Mount(h)
    BY <2>2 DEF Mount
  <2>3. CASE MountFails(h)
    BY <2>3 DEF MountFails
  <2> QED BY <1>8, <2>1, <2>2, <2>3 DEF MountStep
<1>9. ASSUME NEW t \in Targets, LingerEnds(t) PROVE TypeOK'
  BY <1>9 DEF LingerEnds
<1>10. CASE Crash
  <2>1. acked' \in [Targets -> {"none", "published", "unknown", "tearing"}]
    BY <1>10 DEF Crash
  <2>2. kernel' \in [Targets -> Kernels]
    BY <1>10 DEF Crash
  <2>3. crashes' \in 0 .. MaxCrashes
    BY <1>10 DEF Crash
  <2>4. /\ tries' \in [Calls -> 0 .. LockTries - 1]
        /\ linger' \in [Targets -> {"none", "running", "struck"}]
    BY <1>10 DEF Crash
  <2>8. serving' \in BOOLEAN
    BY <1>10, Zenon DEF Crash
  <2>7. boot' \subseteq Targets /\ store' \subseteq Targets
    <3>1. boot' = store \/ boot' = {}
      BY <1>10 DEF Crash
    <3>2. store' = store /\ store \subseteq Targets
      BY <1>10 DEF Crash
    <3> QED BY ONLY <3>1, <3>2
  <2>5. /\ pc' \in [Calls -> PCs]
        /\ \A h \in Calls : pc'[h] # "idle" => tgt'[h] \in Targets
        /\ op' \in [Calls -> {"publish", "unpublish"}]
        /\ tgt' \in [Calls -> Targets \cup {NoTarget}]
        /\ mnt' \in [Calls -> {"none", "newfs", "mounting", "ok", "err"}]
    BY <1>10 DEF Crash
  <2>6. /\ waiting' \subseteq Calls
        /\ locks' \subseteq Targets
        /\ loaded' \subseteq Volumes
        /\ mctx' \subseteq Targets
    BY <1>10 DEF Crash
  <2>9. logged' \in [Targets -> {"none", "save", "mount"}]
    BY <1>10 DEF Crash
  <2> QED BY <2>1, <2>2, <2>3, <2>4, <2>5, <2>6, <2>7, <2>8, <2>9
<1>11. CASE BootStep
  <2>1. CASE StartServing
    BY <2>1 DEF StartServing
  <2>2. ASSUME NEW t \in Targets, RemountSucceeds(t) PROVE TypeOK'
    BY <2>2 DEF RemountSucceeds
  <2>3. ASSUME NEW t \in Targets, RemountFails(t) PROVE TypeOK'
    BY <2>3 DEF RemountFails
  <2> QED BY <1>11, <2>1, <2>2, <2>3 DEF BootStep
<1>12. CASE UNCHANGED vars
  BY <1>12 DEF vars
<1> QED
  BY <1>1, <1>2, <1>3, <1>4, <1>5, <1>6, <1>7, <1>8, <1>9, <1>10, <1>11, <1>12 DEF Next, CallStep

THEOREM TypeCorrect == Spec => []TypeOK
  BY TypeInit, TypeStep, PTL DEF Spec

-----------------------------------------------------------------------------
(* The inductive invariant, in named parts. First who works on a target.   *)

PublishOnly == {"prepare", "load", "wait", "save", "drop", "reap", "detach"}
UnpublishOnly == {"unmount", "cleanup", "forget"}

(* LockExclusive, element by element.                                      *)
Owned ==
  /\ \A h \in Calls : pc[h] \in Locked => tgt[h] \in locks
  /\ \A t \in locks : \E h \in Calls : pc[h] \in Locked /\ tgt[h] = t
  /\ \A g, h \in Calls : pc[g] \in Locked /\ pc[h] \in Locked /\ tgt[g] = tgt[h] => g = h

LEMMA OwnedIsExclusive == Owned => LockExclusive
  BY DEF Owned, LockExclusive, Holders

Phases ==
  \A h \in Calls :
    /\ pc[h] \in PublishOnly => op[h] = "publish"
    /\ pc[h] \in UnpublishOnly => op[h] = "unpublish"
    /\ pc[h] = "idle" => tgt[h] = NoTarget
    /\ mnt[h] # "none" => pc[h] \in {"wait", "reap"}

(* The boot loop runs alone.                                               *)
BootAlone ==
  /\ ~serving => \A h \in Calls : pc[h] = "idle"
  /\ boot # {} => ~serving
  /\ boot \subseteq store

(* Kubelet waits for at most one call per target; a call waits for the     *)
(* lock only while its caller does.                                        *)
Callers ==
  /\ \A h \in Calls : pc[h] = "lock" => h \in waiting
  /\ \A h \in waiting : pc[h] # "idle"
  /\ \A g, h \in waiting : tgt[g] = tgt[h] => g = h

Control == TypeOK /\ Owned /\ Phases /\ BootAlone /\ Callers

(* A step of a handler or reaper between Acquire and Release.              *)
Inside(h) ==
  /\ pc[h] \in Locked /\ pc'[h] \in Locked
  /\ \A g \in Calls \ {h} : pc'[g] = pc[g] /\ mnt'[g] = mnt[g]
  /\ mnt[h] # "none" => pc[h] \in {"wait", "reap"}
  /\ mnt'[h] # "none" => pc'[h] \in {"wait", "reap"}
  /\ pc'[h] \in PublishOnly => pc[h] \in PublishOnly
  /\ pc'[h] \in UnpublishOnly => pc[h] \in UnpublishOnly
  /\ waiting' \subseteq waiting /\ waiting \ {h} \subseteq waiting'
  /\ UNCHANGED <<op, tgt, tries, locks, boot, serving, crashes>>

LEMMA WorkIsInside ==
  ASSUME TypeOK, Phases, NEW h \in Calls, PublishStep(h) \/ ReapStep(h) \/ UnpublishStep(h)
  PROVE  Inside(h)
<1> USE DEF Goto, Inside, Locked, PublishOnly, UnpublishOnly, TypeOK, PCs, Phases
<1>1. ASSUME PublishStep(h) PROVE Inside(h)
  BY <1>1 DEF PublishStep, AlreadyPublished, PrepareTarget, PrepareFails, LoadConfig,
     LoadConfigFails, CollectMount, CollectFailure, HandOff, SaveState, Answer
<1>2. ASSUME ReapStep(h) PROVE Inside(h)
  BY <1>2 DEF ReapStep, Reap, DetachOrphan, DropRemotes
<1>3. ASSUME UnpublishStep(h) PROVE Inside(h)
  BY <1>3 DEF UnpublishStep, GracefulUnmount, SkipGraceful, ForceCleanup, Forget
<1> QED BY <1>1, <1>2, <1>3

LEMMA ControlInit == Init => Control
  BY TypeInit DEF Init, Control, Owned, Phases, BootAlone, Callers, Locked,
     PublishOnly, UnpublishOnly

LEMMA ControlStep == Control /\ [Next]_vars => Control'
<1> SUFFICES ASSUME Control, [Next]_vars PROVE Control'
  OBVIOUS
<1>0. TypeOK /\ TypeOK'
  BY TypeStep DEF Control
<1> DEFINE Rest == Owned /\ Phases /\ BootAlone /\ Callers
<1> SUFFICES Rest'
  BY <1>0 DEF Control
<1> USE ConstantsAssumption, <1>0 DEF Control, PublishOnly, UnpublishOnly, Locked
<1>1. ASSUME NEW h \in Calls, NEW t \in Targets, NEW o \in {"publish", "unpublish"}, Begin(h, t, o)
      PROVE Rest'
  <2>1. Owned'
    BY <1>1 DEF Begin, Owned, TypeOK, PCs
  <2>2. Phases' /\ BootAlone'
    BY <1>1 DEF Begin, Phases, BootAlone, TypeOK
  <2>3. Callers'
    BY <1>1 DEF Begin, Callers, TypeOK
  <2> QED BY <2>1, <2>2, <2>3
<1>2. ASSUME NEW h \in Calls, Abandon(h) PROVE Rest'
  BY <1>2 DEF Abandon, Answer, Owned, Phases, BootAlone, Callers, TypeOK
<1>3. ASSUME NEW h \in Calls, LockStep(h) PROVE Rest'
  <2>1. CASE Acquire(h)
    <3>1. Owned'
      BY <2>1 DEF Acquire, Goto, Owned, TypeOK
    <3>2. Phases' /\ BootAlone'
      BY <2>1 DEF Acquire, Goto, Phases, BootAlone, TypeOK
    <3>3. Callers'
      BY <2>1 DEF Acquire, Goto, Callers, TypeOK
    <3> QED BY <3>1, <3>2, <3>3
  <2>2. CASE Retry(h)
    BY <2>2 DEF Retry, Owned, Phases, BootAlone, Callers, TypeOK
  <2>3. CASE RefuseBusy(h)
    BY <2>3 DEF RefuseBusy, EndCall, Answer, Owned, Phases, BootAlone, Callers, TypeOK
  <2> QED BY <1>3, <2>1, <2>2, <2>3 DEF LockStep
<1>4. ASSUME NEW h \in Calls, PublishStep(h) \/ ReapStep(h) \/ UnpublishStep(h) PROVE Rest'
  <2>1. Inside(h)
    BY <1>4, WorkIsInside
  <2>2. Owned'
    BY <2>1 DEF Inside, Owned, TypeOK
  <2>3. Phases'
    BY <2>1 DEF Inside, Phases, TypeOK
  <2>5. Callers'
    <3>1. /\ \A g \in Calls : pc'[g] = "lock" => g \in waiting'
          /\ \A g \in waiting' : pc'[g] # "idle"
      BY <2>1 DEF Inside, Callers, TypeOK
    <3>2. \A f, g \in waiting' : tgt'[f] = tgt'[g] => f = g
      BY <2>1 DEF Inside, Callers
    <3> QED BY <3>1, <3>2 DEF Callers
  <2>4. BootAlone'
    <3>1. serving /\ boot = {}
      BY <2>1 DEF Inside, BootAlone
    <3> QED BY <2>1, <3>1 DEF Inside, BootAlone
  <2> QED BY <2>2, <2>3, <2>4, <2>5
<1>5. ASSUME NEW h \in Calls, Release(h) PROVE Rest'
  <2>1. Owned'
    BY <1>5 DEF Release, EndCall, Owned, TypeOK
  <2>2. Phases' /\ BootAlone'
    BY <1>5 DEF Release, EndCall, Phases, BootAlone, TypeOK
  <2>3. Callers'
    BY <1>5 DEF Release, EndCall, Answer, Callers, TypeOK
  <2> QED BY <2>1, <2>2, <2>3
<1>6. ASSUME NEW h \in Calls, MountStep(h) PROVE Rest'
  BY <1>6 DEF MountStep, NewFs, Mount, MountFails, Owned, Phases, BootAlone, Callers, TypeOK
<1>7. ASSUME NEW t \in Targets, LingerEnds(t) PROVE Rest'
  BY <1>7 DEF LingerEnds, Owned, Phases, BootAlone, Callers, TypeOK
<1>8. CASE Crash
  BY <1>8 DEF Crash, Owned, Phases, BootAlone, Callers, TypeOK
<1>9. CASE BootStep
  BY <1>9 DEF BootStep, StartServing, RemountSucceeds, RemountFails,
     Owned, Phases, BootAlone, Callers, TypeOK
<1>10. CASE UNCHANGED vars
  BY <1>10 DEF vars, Owned, Phases, BootAlone, Callers
<1> QED
  BY <1>1, <1>2, <1>3, <1>4, <1>5, <1>6, <1>7, <1>8, <1>9, <1>10 DEF Next, CallStep

LEMMA ControlHolds == Spec => []Control
  BY ControlInit, ControlStep, PTL DEF Spec

(* At most one call works on a target, and it holds the key.               *)
THEOREM LockSafe == Spec => []LockExclusive
<1>1. Control => LockExclusive
  BY OwnedIsExclusive DEF Control
<1> QED BY <1>1, ControlHolds, PTL
=============================================================================

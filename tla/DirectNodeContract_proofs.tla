---------------------- MODULE DirectNodeContract_proofs ----------------------
(* The node service in direct mode implements its contract with kubelet,   *)
(* for any targets, volumes and calls.                                     *)
EXTENDS DirectNodeSafety_proofs

USE DEF handlerVars, driverVars, bootVars

(* The mapped variables that are not variables of DirectNode.              *)
Present == {t \in Targets : kernel[t] \notin {"absent", "dir"}}
Undone  == {t \in Targets : linger[t] = "struck"}

(* Where a mount is about to be reported, it is there, or a late unmount   *)
(* has taken it away.                                                      *)
Mounted ==
  \A h \in Calls :
    mnt[h] = "ok" \/ pc[h] = "save" \/ (pc[h] = "releaseOk" /\ op[h] = "publish")
      => tgt[h] \in Present \cup Undone

LEMMA MountedInit == Init => Mounted
  BY DEF Init, Mounted

LEMMA MountedOfWorker ==
  ASSUME Control, Mounted, NEW h \in Calls, Working(h),
         mnt'[h] = "ok" \/ pc'[h] = "save" \/ (pc'[h] = "releaseOk" /\ op'[h] = "publish")
  PROVE  tgt[h] \in (Present \cup Undone)'
<1>0. tgt[h] \in Targets
  BY WorkersAreInside DEF Control, TypeOK, Locked
<1> USE <1>0 DEF Goto, TypeOK, Control, Phases, PublishOnly, UnpublishOnly, Mounted, Present,
        Undone, Served
<1>1. CASE PublishStep(h)
  BY <1>1 DEF PublishStep, AlreadyPublished, PrepareTarget, PrepareFails, LoadConfig,
     LoadConfigFails, CollectMount, CollectFailure, HandOff, SaveState
<1>2. CASE ReapStep(h)
  BY <1>2 DEF ReapStep, Reap, DetachOrphan, DropRemotes
<1>3. CASE UnpublishStep(h)
  BY <1>3 DEF UnpublishStep, GracefulUnmount, SkipGraceful, ForceCleanup, Forget
<1>4. CASE MountStep(h)
  BY <1>4 DEF MountStep, NewFs, Mount, MountFails
<1> QED BY <1>1, <1>2, <1>3, <1>4 DEF Working

LEMMA MountedStep == Control /\ Mounted /\ [Next]_vars => Mounted'
<1> SUFFICES ASSUME Control, Mounted, [Next]_vars PROVE Mounted'
  OBVIOUS
<1>1. ASSUME NEW h \in Calls, Working(h) PROVE Mounted'
  <2>1. /\ Home(h)
        /\ pc[h] \in Locked
        /\ \A g \in Calls \ {h} : pc'[g] = pc[g] /\ mnt'[g] = mnt[g]
    BY <1>1, WorkIsHome, WorkersAreInside DEF Control
  <2> SUFFICES ASSUME NEW g \in Calls \ {h},
                      mnt[g] = "ok" \/ pc[g] = "save" \/ (pc[g] = "releaseOk" /\ op[g] = "publish")
               PROVE  tgt[g] \in (Present \cup Undone)'
    BY <1>1, <2>1, MountedOfWorker DEF Mounted, Home
  <2>2. pc[g] \in Locked
    BY DEF Control, Phases, Locked
  <2>3. tgt[g] \in Targets \ {tgt[h]}
    BY <2>1, <2>2, OwnersApart
  <2> QED BY <2>1, <2>3 DEF Home, Mounted, Present, Undone
<1>2. ASSUME NEW h \in Calls, NEW t \in Targets, NEW o \in {"publish", "unpublish"}, Begin(h, t, o)
      PROVE Mounted'
  BY <1>2 DEF Begin, Mounted, Present, Undone, Control, TypeOK, Phases
<1>3. ASSUME NEW h \in Calls, Abandon(h) \/ LockStep(h) \/ Release(h) PROVE Mounted'
  <2> USE DEF Mounted, Present, Undone, Control, TypeOK, Phases
  <2>1. CASE Abandon(h)
    BY <2>1 DEF Abandon
  <2>2. CASE Acquire(h)
    BY <2>2 DEF Acquire, Goto
  <2>3. CASE Retry(h)
    BY <2>3 DEF Retry
  <2>4. CASE RefuseBusy(h)
    BY <2>4 DEF RefuseBusy, EndCall
  <2>5. CASE Release(h)
    BY <2>5 DEF Release, EndCall
  <2> QED BY <1>3, <2>1, <2>2, <2>3, <2>4, <2>5 DEF LockStep
<1>4. ASSUME NEW t \in Targets, LingerEnds(t) PROVE Mounted'
  <2>1. ASSUME NEW u \in Targets, u \in Present \cup Undone PROVE u \in (Present \cup Undone)'
    BY <1>4, <2>1 DEF LingerEnds, Present, Undone, Control, TypeOK
  <2> QED BY <1>4, <2>1 DEF LingerEnds, Mounted, Present, Undone
<1>5. CASE Crash
  BY <1>5 DEF Crash, Mounted
<1>6. CASE BootStep
  <2>1. /\ \A h \in Calls : pc[h] = "idle" /\ mnt[h] = "none"
        /\ UNCHANGED <<pc, mnt>>
    BY <1>6 DEF BootStep, StartServing, RemountSucceeds, RemountFails, Control,
       BootAlone, Phases, TypeOK
  <2> QED BY <2>1 DEF Mounted
<1>7. CASE UNCHANGED vars
  BY <1>7 DEF vars, Mounted, Present, Undone
<1> QED
  BY <1>1, <1>2, <1>3, <1>4, <1>5, <1>6, <1>7 DEF Next, CallStep, Working

-----------------------------------------------------------------------------
(* A change at one target, seen through the mapping.                       *)
LEMMA OnlyAt ==
  ASSUME NEW u \in Targets,
         \A t \in Targets \ {u} : kernel'[t] = kernel[t] /\ linger'[t] = linger[t]
                                  /\ (t \in store' <=> t \in store),
         store \subseteq Targets, store' \subseteq Targets
  PROVE  /\ Present' \in {Present \cup {u}, Present \ {u}}
         /\ store' \in {store \cup {u}, store \ {u}}
         /\ Undone' \in {Undone \cup {u}, Undone \ {u}}
<1>1. Present' = Present \cup {u} \/ Present' = Present \ {u}
  BY DEF Present
<1>2. store' = store \cup {u} \/ store' = store \ {u}
  OBVIOUS
<1>3. Undone' = Undone \cup {u} \/ Undone' = Undone \ {u}
  BY DEF Undone
<1> QED BY <1>1, <1>2, <1>3

LEMMA ContractInit == Init => Contract!Init
  BY DEF Init, Contract!Init

(* What a call does between Acquire and Release is work on its target, or, *)
(* at a hand-off, the answer.                                              *)
LEMMA WorkerKeepsContract ==
  ASSUME Control, TypeOK', NEW h \in Calls, Working(h)
  PROVE  [Contract!Next]_(Contract!vars)
<1>1. /\ Home(h)
      /\ pc[h] \in Locked
      /\ tgt[h] \in Targets /\ tgt[h] \in locks
  BY WorkIsHome, WorkersAreInside DEF Control, TypeOK, Owned, Locked
<1>2. CASE HandOff(h)
  <2>1. Present' = Present /\ Undone' = Undone
    BY <1>1, <1>2 DEF HandOff, Present, Undone, Control, TypeOK
  <2>2. UNCHANGED acked \/ acked' = [acked EXCEPT ![tgt[h]] = "unknown"]
    BY <1>2 DEF HandOff, Answer
  <2>3. UNCHANGED <<locks, store, serving>>
    BY <1>2 DEF HandOff, Goto
  <2> QED
    BY <1>1, <2>1, <2>2, <2>3 DEF Present, Undone, Contract!Next, Contract!Learn, Contract!vars
<1>3. CASE ~HandOff(h)
  <2>1. UNCHANGED acked
    <3>1. CASE PublishStep(h)
      BY <1>3, <3>1 DEF PublishStep, AlreadyPublished, PrepareTarget, PrepareFails, LoadConfig,
         LoadConfigFails, CollectMount, CollectFailure, SaveState
    <3>2. CASE ReapStep(h)
      BY <3>2 DEF ReapStep, Reap, DetachOrphan, DropRemotes
    <3>3. CASE UnpublishStep(h)
      BY <3>3 DEF UnpublishStep, GracefulUnmount, SkipGraceful, ForceCleanup, Forget
    <3>4. CASE MountStep(h)
      BY <3>4 DEF MountStep, NewFs, Mount, MountFails
    <3> QED BY <3>1, <3>2, <3>3, <3>4 DEF Working
  <2>2. linger'[tgt[h]] = "struck" => linger[tgt[h]] = "struck"
    <3> USE <1>1 DEF Control, TypeOK
    <3>1. CASE PublishStep(h)
      BY <1>3, <3>1 DEF PublishStep, AlreadyPublished, PrepareTarget, PrepareFails, LoadConfig,
         LoadConfigFails, CollectMount, CollectFailure, SaveState
    <3>2. CASE ReapStep(h)
      BY <3>2 DEF ReapStep, Reap, DetachOrphan, DropRemotes
    <3>3. CASE UnpublishStep(h)
      BY <3>3 DEF UnpublishStep, GracefulUnmount, SkipGraceful, ForceCleanup, Forget
    <3>4. CASE MountStep(h)
      BY <3>4 DEF MountStep, NewFs, Mount, MountFails
    <3> QED BY <3>1, <3>2, <3>3, <3>4 DEF Working
  <2>3. /\ Present' \in {Present \cup {tgt[h]}, Present \ {tgt[h]}}
        /\ store' \in {store \cup {tgt[h]}, store \ {tgt[h]}}
        /\ Undone' \in {Undone \cup {tgt[h]}, Undone \ {tgt[h]}}
    <3>1. \A t \in Targets \ {tgt[h]} : kernel'[t] = kernel[t] /\ linger'[t] = linger[t]
                                        /\ (t \in store' <=> t \in store)
      BY <1>1 DEF Home
    <3>2. store \subseteq Targets /\ store' \subseteq Targets
      BY DEF Control, TypeOK
    <3>3. tgt[h] \in Targets
      BY <1>1
    <3> QED BY ONLY <3>1, <3>2, <3>3, OnlyAt
  <2>4. Undone' \in {Undone, Undone \ {tgt[h]}}
    BY <1>1, <2>2, <2>3 DEF Undone
  <2>5. UNCHANGED <<locks, serving>>
    BY <1>1 DEF Home
  <2>6. PICK t \in Targets : t = tgt[h]
    BY <1>1
  <2>7. Contract!Work(t)
    BY <1>1, <2>1, <2>3, <2>4, <2>5, <2>6 DEF Present, Undone, Contract!Work
  <2> QED BY <2>7 DEF Contract!Next
<1> QED BY <1>2, <1>3

LEMMA ContractStep ==
  Control /\ Control' /\ Answers /\ Mounted /\ [Next]_vars => [Contract!Next]_(Contract!vars)
<1> SUFFICES ASSUME Control, Control', Answers, Mounted, [Next]_vars
             PROVE  [Contract!Next]_(Contract!vars)
  OBVIOUS
<1>1. ASSUME NEW h \in Calls, Working(h) PROVE [Contract!Next]_(Contract!vars)
  BY <1>1, WorkerKeepsContract DEF Control
<1>2. ASSUME NEW h \in Calls, NEW t \in Targets, NEW o \in {"publish", "unpublish"}, Begin(h, t, o)
      PROVE [Contract!Next]_(Contract!vars)
  BY <1>2 DEF Begin, Contract!Next, Contract!Learn, Contract!vars
<1>3. ASSUME NEW h \in Calls, Abandon(h) PROVE [Contract!Next]_(Contract!vars)
  <2>1. tgt[h] \in Targets
    BY <1>3 DEF Abandon, Control, Callers, TypeOK
  <2> QED BY <1>3, <2>1 DEF Abandon, Answer, Contract!Next, Contract!Learn, Contract!vars
<1>4. ASSUME NEW h \in Calls, Acquire(h) PROVE [Contract!Next]_(Contract!vars)
  <2>1. tgt[h] \in Targets /\ serving
    BY <1>4 DEF Acquire, Goto, Control, BootAlone, TypeOK
  <2> QED BY <1>4, <2>1 DEF Acquire, Goto, Contract!Next, Contract!Take
<1>5. ASSUME NEW h \in Calls, Retry(h) PROVE [Contract!Next]_(Contract!vars)
  BY <1>5 DEF Retry, Contract!vars
<1>6. ASSUME NEW h \in Calls, RefuseBusy(h) PROVE [Contract!Next]_(Contract!vars)
  <2>1. tgt[h] \in Targets
    BY <1>6 DEF RefuseBusy, Control, TypeOK
  <2> QED BY <1>6, <2>1 DEF RefuseBusy, Answer, Contract!Next, Contract!Learn, Contract!vars
<1>7. ASSUME NEW h \in Calls, Release(h) PROVE [Contract!Next]_(Contract!vars)
  <2>1. tgt[h] \in Targets /\ tgt[h] \in locks /\ pc[h] # "idle"
    BY <1>7 DEF Release, Control, Owned, Locked, TypeOK
  <2>2. /\ locks' = locks \ {tgt[h]}
        /\ UNCHANGED <<kernel, store, linger, serving>>
    BY <1>7 DEF Release
  <2>3. pc[h] = "releaseOk" /\ op[h] = "publish" => tgt[h] \in Present \cup Undone
    BY DEF Mounted
  <2>4. pc[h] = "releaseOk" /\ op[h] # "publish" => tgt[h] \notin Present \cup store
    BY <2>1 DEF Answers, Told, Clean, Present, Control, TypeOK
  <2>5. \/ acked' = acked
        \/ acked' = [acked EXCEPT ![tgt[h]] = "unknown"]
        \/ tgt[h] \in Present \cup Undone   /\ acked' = [acked EXCEPT ![tgt[h]] = "published"]
        \/ tgt[h] \notin Present \cup store /\ acked' = [acked EXCEPT ![tgt[h]] = "none"]
    BY <1>7, <2>3, <2>4 DEF Release, Answer
  <2>6. Contract!Finish(tgt[h])
    BY <2>1, <2>2, <2>5 DEF Contract!Finish, Present, Undone
  <2> QED BY <2>1, <2>6 DEF Contract!Next
<1>8. ASSUME NEW t \in Targets, LingerEnds(t) PROVE [Contract!Next]_(Contract!vars)
  <2>1. UNCHANGED <<acked, locks, store, serving>>
    BY <1>8 DEF LingerEnds
  <2>2. CASE kernel[t] \in Served
    <3>1. t \in Present /\ Present' = Present \ {t} /\ Undone' = Undone \cup {t}
      BY <1>8, <2>2 DEF LingerEnds, Present, Undone, Control, TypeOK, Served
    <3> QED BY <2>1, <3>1 DEF Contract!Next, Contract!LateUnmount, Present, Undone
  <2>3. CASE kernel[t] \notin Served
    <3>1. Present' = Present /\ Undone' = Undone
      BY <1>8, <2>3 DEF LingerEnds, Present, Undone, Control, TypeOK
    <3> QED BY <2>1, <3>1 DEF Contract!vars, Present, Undone
  <2> QED BY <2>2, <2>3
<1>9. CASE Crash
  <2> DEFINE Lost == {t \in Targets : \E h \in waiting : tgt[h] = t /\ op[h] = "publish"}
  <2>1. acked' = [t \in Targets |-> IF t \in Lost THEN "unknown" ELSE acked[t]]
    BY <1>9 DEF Crash
  <2>2. Present' = Present /\ Undone' = {} /\ locks' = {} /\ serving' = FALSE /\ store' = store
    BY <1>9 DEF Crash, Present, Undone, Served
  <2>3. Lost \in SUBSET Targets
    OBVIOUS
  <2> HIDE DEF Lost
  <2>4. Contract!Restart
    BY <2>1, <2>2, <2>3 DEF Contract!Restart, Present, Undone
  <2> QED BY <2>4 DEF Contract!Next
<1>10. CASE BootStep
  <2>1. CASE StartServing
    BY <2>1 DEF StartServing, Contract!Next, Contract!Serve
  <2>2. ASSUME NEW t \in Targets, RemountSucceeds(t) \/ RemountFails(t)
        PROVE  [Contract!Next]_(Contract!vars)
    <3>1. ~serving /\ t \in store
      BY <2>2 DEF RemountSucceeds, RemountFails, Control, BootAlone
    <3>2. /\ UNCHANGED <<acked, locks, store, serving, linger>>
          /\ \A u \in Targets \ {t} : kernel'[u] = kernel[u]
      BY <2>2 DEF RemountSucceeds, RemountFails, Control, TypeOK
    <3>3. Present' \in {Present \cup {t}, Present \ {t}} /\ Undone' = Undone
      BY <3>2, OnlyAt DEF Control, TypeOK, Undone
    <3>4. Contract!Recover(t)
      BY <3>1, <3>2, <3>3 DEF Contract!Recover, Present, Undone
    <3> QED BY <3>4 DEF Contract!Next
  <2> QED BY <1>10, <2>1, <2>2 DEF BootStep
<1>11. CASE UNCHANGED vars
  BY <1>11 DEF vars, Contract!vars
<1> QED
  BY <1>1, <1>2, <1>3, <1>4, <1>5, <1>6, <1>7, <1>8, <1>9, <1>10, <1>11
     DEF Next, CallStep, LockStep, Working

(* Every behaviour of the node service is one its contract with kubelet    *)
(* allows (NodePublishVolume, NodeUnpublishVolume, RemountAllStates).      *)
THEOREM ContractImplemented == Spec => ContractKept
<1> USE ControlHolds, EmptiedInit, EmptiedStep, AnswersInit, AnswersStep, MountedInit, MountedStep
<1>1. Spec => [](Control /\ Answers /\ Mounted)
  BY PTL DEF Spec
<1>2. Spec => Contract!Init /\ [][Contract!Next]_(Contract!vars)
  BY <1>1, ContractInit, ContractStep, PTL DEF Spec
<1> QED BY <1>2, PTL DEF ContractKept, Contract!Spec
=============================================================================
